---- MODULE Spec2Model ----
(***************************************************************************)
(* Model of the clx course builder: the conversion RPC over the broker     *)
(* (clx/utils/nats_utils.py, clx/file_ops.py), the operation tree          *)
(* (clx/operation.py), the staged, chunked scheduler (clx/course.py) and   *)
(* the file events of the watcher (clx/__main__.py).                       *)
(***************************************************************************)
EXTENDS Integers, Sequences, FiniteSets, TLC

(***************************************************************************)
(* Bounds of the model.  The code runs output_specs() over all 10 variants *)
(* and chunks by 10; the model keeps both as parameters and runs them      *)
(* small, so that several chunks and several variants occur.               *)
(***************************************************************************)
\* number of output variants (a prefix of output_specs) built per file
NumVariants == 2
\* chunk size handed to chunks(operations, n) by process_all
ChunkSize == 2
\* number of file events handled after the build
MaxEvents == 2
\* number of faults the environment injects (a refused connection, a failed
\* subscribe or publish, a failed copy, a conversion error, a leaf whose
\* publishes are cancelled)
MaxFaults == 1

(***************************************************************************)
(* Program constants.                                                      *)
(***************************************************************************)
\* for num_tries in range(10): publish attempts
PublishTries == 10
\* ConsumerConfig(ack_policy=AckPolicy.EXPLICIT, max_deliver=1)
MaxDeliverTwice == 1 + 1
MaxDeliver == 1
\* execution stages, first and last
FIRST_EXECUTION_STAGE == 1
LAST_EXECUTION_STAGE == 2

execution_stages == FIRST_EXECUTION_STAGE..LAST_EXECUTION_STAGE

(***************************************************************************)
(* path_utils.output_specs: the variants, in the order the code yields     *)
(* them.                                                                   *)
(***************************************************************************)
output_specs ==
    << [lang |-> "de", format |-> "html",     mode |-> "code-along"],
       [lang |-> "de", format |-> "html",     mode |-> "completed"],
       [lang |-> "de", format |-> "notebook", mode |-> "code-along"],
       [lang |-> "de", format |-> "notebook", mode |-> "completed"],
       [lang |-> "en", format |-> "html",     mode |-> "code-along"],
       [lang |-> "en", format |-> "html",     mode |-> "completed"],
       [lang |-> "en", format |-> "notebook", mode |-> "code-along"],
       [lang |-> "en", format |-> "notebook", mode |-> "completed"],
       [lang |-> "de", format |-> "code",     mode |-> "completed"],
       [lang |-> "en", format |-> "code",     mode |-> "completed"] >>

Variants == 1..NumVariants

(***************************************************************************)
(* The course the model builds: two sections; the first holds a diagram    *)
(* source, a notebook and three data files, the second a diagram source.   *)
(***************************************************************************)
Sections == <<"s1", "s2">>

Files == {"p1", "n1", "d1", "d2", "d3", "w1"}

\* Section.files: the files of a section, in topic order
SectionFiles(s) ==
    IF s = "s1" THEN <<"p1", "n1", "d1", "d2", "d3">> ELSE <<"w1">>

\* _find_file_class: the variant of a file
Kind(f) ==
    CASE f = "p1" -> "plantuml"
      [] f = "w1" -> "drawio"
      [] f = "n1" -> "notebook"
      [] OTHER    -> "data"

\* File.relative_path, as a sequence of characters
RelativePath(f) ==
    CASE f = "p1" -> <<"d", "/", "a">>
      [] f = "w1" -> <<"d", "_", "a">>
      [] f = "n1" -> <<"s", "l">>
      [] f = "d1" -> <<"x">>
      [] f = "d2" -> <<"y">>
      [] OTHER    -> <<"z">>

\* Topic.id of the topic that owns the file, as a sequence of characters
TopicId(f) == IF f = "w1" THEN <<"t", "2">> ELSE <<"t", "1">>

\* Notebook.number_in_section, set by Section.add_notebook_numbers
NumberInSection(f) == IF f = "n1" THEN 1 ELSE 0

\* data files in a stage after the last one
ExecutionStageMutant(f) ==
    IF Kind(f) = "data" THEN LAST_EXECUTION_STAGE + 1 ELSE FIRST_EXECUTION_STAGE

\* File.execution_stage / DataFile.execution_stage
ExecutionStage(f) ==
    IF Kind(f) = "data" THEN LAST_EXECUTION_STAGE ELSE FIRST_EXECUTION_STAGE

IsRpcKind(k) == k \in {"plantuml", "drawio", "notebook"}

(***************************************************************************)
(* Operation trees.  A run is one call of get_processing_operation(file)   *)
(* followed by exec(): run 1 is process_all, runs 2.. are file events.     *)
(* A leaf is <<run, file, variant>>.                                       *)
(***************************************************************************)
Runs == 1..(1 + MaxEvents)

Leaves == Runs \X Files \X Variants

\* the section that holds the file
SectionOf(f) == IF f = "w1" THEN "s2" ELSE "s1"

\* the position of the file in Section.files
FilePosition(f) ==
    CHOOSE i \in 1..Len(SectionFiles(SectionOf(f))) : SectionFiles(SectionOf(f))[i] = f

\* get_processing_operation: the leaf operations of the file's tree
LeavesOf(r, f) ==
    IF Kind(f) \in {"plantuml", "drawio"}
    THEN {<<r, f, 1>>}
    ELSE {<<r, f, v>> : v \in Variants}

\* output_file of a leaf: img_path for a diagram, one path per variant else
OutputFile(l) ==
    IF Kind(l[2]) \in {"plantuml", "drawio"} THEN <<l[2], 0>> ELSE <<l[2], l[3]>>

OutPaths == Files \X (0..NumVariants + 1)

(***************************************************************************)
(* Reply subjects.  Strings are sequences of characters, so that the       *)
(* formatting and the sanitizing are computed, not assumed injective.      *)
(***************************************************************************)
DigitChars == <<"0", "1", "2", "3", "4", "5", "6", "7", "8", "9">>

RECURSIVE NumStr(_)
\* str(n) of a natural number
NumStr(n) ==
    IF n < 10 THEN <<DigitChars[n + 1]>>
    ELSE NumStr(n \div 10) \o <<DigitChars[(n % 10) + 1]>>

\* characters that are not legal in a subject name
IllegalSubjectChars == {"/", "\\", " ", "*", ">"}

\* text_utils.sanitize_subject_name: illegal characters replaced, none deleted
sanitize_subject_name(text) ==
    [i \in 1..Len(text) |->
        IF text[i] \in IllegalSubjectChars THEN "_" ELSE text[i]]

\* _reply_subject_and_stream_for_operation, with reply_counter already raised
ImageReplySubject(f, counter) ==
    [stream  |-> "IMG_RESULT_STREAM",
     subject |-> sanitize_subject_name(
                    <<"img.result.">> \o RelativePath(f) \o <<"_">> \o NumStr(counter))]

\* ProcessNotebookOperation.reply_subject
NotebookReplySubject(f, v) ==
    [stream  |-> "NOTEBOOK_RESULT_STREAM",
     subject |-> sanitize_subject_name(
                    <<"notebook.result.">> \o TopicId(f) \o <<"_">>
                    \o NumStr(NumberInSection(f)) \o <<"_", output_specs[v].lang>>
                    \o <<"_", output_specs[v].format>>
                    \o <<"_", output_specs[v].mode>>)]

NoSubject == [stream |-> "", subject |-> <<>>]

\* NATS_STREAMS / NB_PROCESS_SUBJECT: where the request of a file kind goes
RequestSubject(k) ==
    CASE k = "plantuml" -> "plantuml.process"
      [] k = "drawio"   -> "drawio.process"
      [] OTHER          -> "notebook.process"

(***************************************************************************)
(* State.                                                                  *)
(***************************************************************************)
VARIABLES
    leaf,               \* the leaf operations whose exec() has been called:
                        \*   pc     position of the exec() coroutine
                        \*   subj   reply subject it subscribed to
                        \*   tries  num_tries of its publish loop
                        \*   msg    the reply returned by next_msg
                        \*   inbox  replies pushed to its subscription, in order
                        \*   log    what the leaf has done so far (history)
    reply_counter,      \* nats_utils.reply_counter
    subs,               \* leaves whose reply subscription is live on the broker
    reqStream,          \* requests held by the *_PROCESS_STREAM channels
    resStream,          \* replies held by the *_RESULT_STREAM channels
    delivered,          \* history: <<request of the reply, leaf it was handed to>>
    generated_outputs,  \* file -> File.generated_outputs
    disk,               \* output path -> request whose result is stored there
    sched,              \* position of Course.process_all
    started,            \* <<run, file>> whose operation's exec() was called
    events,             \* number of file events handled so far
    faults,             \* number of faults injected so far
    seq,                \* a Sequential operation: its operations, the state
                        \*   of its exec() and of each child's exec()
    del,                \* the delete operation of a file: the file, the
                        \*   paths it was created with, those whose
                        \*   DeleteFileOperation has not run yet, those
                        \*   whose DeleteFileOperation raised
    course,             \* the course structure: Topic._file_map of every
                        \*   topic, with number_in_section of the notebooks
    tree,               \* Course.from_spec on a course spec and a slides
                        \*   directory: topic map, sections, topics, files
    boot,               \* the stream bootstrap service (nats-init)
    worker,             \* a conversion worker service and its request stream
    unit,               \* a file object made by File.from_path and the leaf
                        \*   operations of its processing operation
    img,                \* the result reply of a diagram request and the
                        \*   output directory it is written to
    mv,                 \* a call of Course.on_file_moved
    conc                \* event-handler tasks that run concurrently for
                        \*   one file, and the file's outputs

\* the state of the build and of the watch session
buildVars == <<leaf, reply_counter, subs, reqStream, resStream, delivered,
               generated_outputs, disk, sched, started, events, faults>>

\* the state of the operations that are modelled on their own
\* the state of the functions and handlers that are modelled on their own
unitVars == <<unit, img, mv, conc>>

otherVars == <<seq, del, course, tree, boot, worker, unitVars>>

\* everything but the Sequential operation
exceptSeq == <<buildVars, del, course, tree, boot, worker, unitVars>>

vars == <<buildVars, otherVars>>

\* a Sequential over the operations ops whose exec() has not been called
NewSequential(ops) ==
    [operations |-> ops, status |-> "idle", child |-> [i \in 1..Len(ops) |-> "idle"],
     log |-> <<>>]

\* no file is being deleted
NoDelete ==
    [file |-> "", status |-> "idle", paths |-> {}, todo |-> {}, failed |-> {},
     left |-> {}, count |-> 0]

\* the topics of the course structure, in the order of the course spec
TopicIds == <<"ta", "tb", "tc">>

\* no file in any topic
NoCourse == [file_map |-> [t \in 1..Len(TopicIds) |-> <<>>], events |-> 0]

\* no call of Course.add_file or on_file_created yet
NoCall == [op |-> "none", path |-> <<>>, returned |-> <<>>, executed |-> FALSE]

\* no course spec is being built
NoTree ==
    [phase |-> "idle", listing |-> <<>>, spec |-> <<>>, topic_path_map |-> <<>>,
     sections |-> <<>>, events |-> 0, last |-> NoCall]

\* the stream bootstrap is not run
NoBoot ==
    [pc |-> "idle", force |-> TRUE, k |-> 0, i |-> 0, streams |-> {}, before |-> {},
     attempted |-> {}, failed |-> {}, runs |-> 0]

NoRequest ==
    [id |-> <<"", 0>>, sender |-> "", json |-> FALSE, keys |-> {}, reply_key |-> "",
     subject |-> NoSubject]

\* no worker service is run
NoWorker ==
    [pc |-> "idle", service |-> "", stream |-> {}, msg |-> NoRequest,
     published |-> <<>>, done |-> {}]

\* no file object is made
NoUnit ==
    [pc |-> "idle", path |-> <<>>, class |-> "", leaves |-> <<>>, raised |-> FALSE]

\* no result reply is handled
NoImg ==
    [pc |-> "idle", data |-> <<>>, result |-> <<>>, parent |-> FALSE,
     written |-> FALSE, file |-> <<>>]

\* no file is moved
NoMove == [pc |-> "idle", src |-> "", created |-> FALSE]

\* no event handler runs
NoConc == [outputs |-> {}, disk |-> {}, task |-> <<>>]

\* the functions and handlers that are modelled on their own are left aside
UnitsIdle == unit = NoUnit /\ img = NoImg /\ mv = NoMove /\ conc = NoConc

\* the services and the course spec builder are left aside
ServicesIdle == tree = NoTree /\ boot = NoBoot /\ worker = NoWorker

\* no operation is executed on its own, and the course structure is left aside
OtherInit ==
    seq = NewSequential(<<>>) /\ del = NoDelete /\ course = NoCourse /\ ServicesIdle
    /\ UnitsIdle

NoMsg == [req |-> <<0, "", 0>>, subject |-> NoSubject, body |-> "none"]

NoFile == <<0, "", 0>>

brokerVars == <<subs, reqStream, resStream, delivered>>

\* the state right after Course.from_spec: nothing processed yet
BuildInit ==
    /\ leaf = [l \in {} |-> 0]
    /\ reply_counter = 0
    /\ subs = {}
    /\ reqStream = {}
    /\ resStream = {}
    /\ delivered = {}
    /\ generated_outputs = [f \in Files |-> {}]
    /\ disk = [p \in OutPaths |-> NoFile]
    /\ sched = [phase |-> "stage", sec |-> 1, stage |-> FIRST_EXECUTION_STAGE, chunk |-> 1]
    /\ started = {}
    /\ events = 0
    /\ faults = 0

Init == BuildInit /\ OtherInit

(***************************************************************************)
(* The conversion RPC of a leaf: process_image_request for a diagram,      *)
(* ProcessNotebookOperation.exec / process_request for a notebook.         *)
(***************************************************************************)
IsRpcLeaf(l) == IsRpcKind(Kind(l[2]))

IsImageLeaf(l) == Kind(l[2]) \in {"plantuml", "drawio"}

\* the leaf is an RPC whose coroutine is at the given position
At(l, where) == l \in DOMAIN leaf /\ IsRpcLeaf(l) /\ leaf[l].pc = where

\* nats.connect(NATS_URL) returns a connection
ConnectOk(l) ==
    /\ At(l, "connecting")
    /\ leaf' = [leaf EXCEPT ![l].pc = "connected"]
    /\ UNCHANGED <<reply_counter, brokerVars, generated_outputs, disk, sched,
                   started, events, faults, otherVars>>

\* nats.connect raises: it is called outside the try, so exec() raises
ConnectFail(l) ==
    /\ At(l, "connecting")
    /\ faults < MaxFaults
    /\ faults' = faults + 1
    /\ leaf' = [leaf EXCEPT ![l].pc = "raised"]
    /\ UNCHANGED <<reply_counter, brokerVars, generated_outputs, disk, sched,
                   started, events, otherVars>>

\* the counter after _reply_subject_and_stream_for_operation (diagrams only)
NextReplyCounter(l) ==
    IF IsImageLeaf(l) THEN reply_counter + 1 ELSE reply_counter

\* the reply subject the leaf uses
ReplySubjectOf(l) ==
    IF IsImageLeaf(l)
    THEN ImageReplySubject(l[2], NextReplyCounter(l))
    ELSE NotebookReplySubject(l[2], l[3])

\* _subscribe_to_nats_subject / subscribe_to_reply_subject: js.subscribe and
\* nc.flush succeed; the publish loop is entered next
SubscribeOk(l) ==
    /\ At(l, "connected")
    /\ reply_counter' = NextReplyCounter(l)
    /\ subs' = subs \cup {l}
    /\ leaf' = [leaf EXCEPT ![l].pc = "publishing",
                            ![l].subj = ReplySubjectOf(l),
                            ![l].tries = 0,
                            ![l].log = @ \cup {"subscribed"}]
    /\ UNCHANGED <<reqStream, resStream, delivered, generated_outputs, disk,
                   sched, started, events, faults, otherVars>>

\* where the RPC goes when js.subscribe raises: the exception is logged and
\* re-raised, and the except Exception of the RPC leads to the finally clause
AfterSubscribeFailureMutant == "publishing"
AfterSubscribeFailure == "closing"

SubscribeFail(l) ==
    /\ At(l, "connected")
    /\ faults < MaxFaults
    /\ faults' = faults + 1
    /\ reply_counter' = NextReplyCounter(l)
    /\ leaf' = [leaf EXCEPT ![l].pc = AfterSubscribeFailure,
                            ![l].subj = ReplySubjectOf(l),
                            ![l].log = @ \cup {"subscribe_failed"}]
    /\ UNCHANGED <<brokerVars, generated_outputs, disk, sched, started, events,
                   otherVars>>

\* the request message of a leaf
Request(l) ==
    [req |-> l, subject |-> RequestSubject(Kind(l[2])),
     reply_subject |-> leaf[l].subj]

\* js.publish succeeds: break out of the loop and wait for the reply
PublishOk(l) ==
    /\ At(l, "publishing")
    /\ reqStream' = reqStream \cup {Request(l)}
    /\ leaf' = [leaf EXCEPT ![l].pc = "waiting",
                            ![l].tries = 0,
                            ![l].log = @ \cup {"published"}]
    /\ UNCHANGED <<reply_counter, subs, resStream, delivered, generated_outputs,
                   disk, sched, started, events, faults, otherVars>>

\* js.publish raises CancelledError: continue; after the last try the loop
\* ends and the code goes on to wait for the reply
PublishCancelled(l) ==
    /\ At(l, "publishing")
    /\ leaf[l].tries < PublishTries
    /\ leaf[l].tries = 0 => faults < MaxFaults
    /\ faults' = IF leaf[l].tries = 0 THEN faults + 1 ELSE faults
    /\ leaf' = IF leaf[l].tries + 1 = PublishTries
               THEN [leaf EXCEPT ![l].pc = "waiting",
                                 ![l].tries = 0,
                                 ![l].log = @ \cup {"publish_exhausted"}]
               ELSE [leaf EXCEPT ![l].tries = @ + 1]
    /\ UNCHANGED <<reply_counter, brokerVars, generated_outputs, disk, sched,
                   started, events, otherVars>>

\* js.publish raises another exception: logged, re-raised, caught by the
\* except Exception of the RPC
PublishError(l) ==
    /\ At(l, "publishing")
    /\ faults < MaxFaults
    /\ faults' = faults + 1
    /\ leaf' = [leaf EXCEPT ![l].pc = "closing",
                            ![l].tries = 0,
                            ![l].log = @ \cup {"publish_failed"}]
    /\ UNCHANGED <<reply_counter, brokerVars, generated_outputs, disk, sched,
                   started, events, otherVars>>

\* sub.next_msg(timeout=None) returns the next reply pushed to the
\* subscription; with no timeout it returns only when there is one
NextMsg(l) ==
    /\ At(l, "waiting")
    /\ leaf[l].inbox # <<>>
    /\ leaf' = [leaf EXCEPT ![l].pc = "got",
                            ![l].msg = Head(leaf[l].inbox),
                            ![l].inbox = Tail(@)]
    /\ UNCHANGED <<reply_counter, brokerVars, generated_outputs, disk, sched,
                   started, events, faults, otherVars>>

\* msg.ack(): the broker drops the acknowledged reply from the work queue
Ack(l) ==
    /\ At(l, "got")
    /\ resStream' = {m \in resStream : m.req # leaf[l].msg.req}
    /\ leaf' = [leaf EXCEPT ![l].pc = "acked", ![l].log = @ \cup {"acked"}]
    /\ UNCHANGED <<reply_counter, subs, reqStream, delivered, generated_outputs,
                   disk, sched, started, events, faults, otherVars>>

\* what decoding the reply leads to: only a reply with a result is written
\* (image: result.get("result").encode(); notebook: data.get("result"))
WritesArtifact(body) == body = "result"

\* the reply is decoded once the wait for it has returned it, acknowledged
DecodeReadyMutant(l) == At(l, "got") \/ At(l, "acked")
DecodeReady(l) == At(l, "acked")

\* json.loads of the reply and the write of the artifact to output_file;
\* any exception is caught by the except Exception of the RPC
Decode(l) ==
    /\ DecodeReady(l)
    /\ IF WritesArtifact(leaf[l].msg.body)
       THEN /\ disk' = [disk EXCEPT ![OutputFile(l)] = leaf[l].msg.req]
            /\ leaf' = [leaf EXCEPT ![l].pc = "closing",
                                    ![l].log = @ \cup {"decoded", "written"}]
       ELSE /\ disk' = disk
            /\ leaf' = [leaf EXCEPT ![l].pc = "closing",
                                    ![l].log = @ \cup {"decoded"}]
    /\ UNCHANGED <<reply_counter, brokerVars, generated_outputs, sched, started,
                   events, faults, otherVars>>

\* every operation records into the set of the first diagram
InputFileMutant(l) == "p1"

\* input_file of a leaf operation: the file it was built for
InputFile(l) == l[2]

\* finally: nc.close(); the RPC returns normally and exec() goes on to
\* self.input_file.generated_outputs.add(self.output_file)
Finish(l) ==
    /\ At(l, "closing")
    /\ subs' = subs \ {l}
    /\ generated_outputs' =
           [generated_outputs EXCEPT ![InputFile(l)] = @ \cup {OutputFile(l)}]
    /\ leaf' = [leaf EXCEPT ![l].pc = "done",
                            ![l].inbox = <<>>,
                            ![l].log = @ \cup {"recorded"}]
    /\ UNCHANGED <<reply_counter, reqStream, resStream, delivered, disk, sched,
                   started, events, faults, otherVars>>

(***************************************************************************)
(* CopyFileOperation.exec: synchronous, so one step.  The tasks that       *)
(* gather creates take their first step in the order of their creation.    *)
(***************************************************************************)
\* task k was created before task l
CreatedBefore(k, l) ==
    \/ k[1] < l[1]
    \/ k[1] = l[1] /\ FilePosition(k[2]) < FilePosition(l[2])
    \/ k[1] = l[1] /\ k[2] = l[2] /\ k[3] < l[3]

\* the leaf is a copy whose task has not run yet, and it is the next to run
CopyTurn(l) ==
    /\ l \in DOMAIN leaf
    /\ Kind(l[2]) = "data"
    /\ leaf[l].pc = "start"
    /\ \A k \in DOMAIN leaf : leaf[k].pc = "start" => ~CreatedBefore(k, l)

CopyOk(l) ==
    /\ CopyTurn(l)
    /\ disk' = [disk EXCEPT ![OutputFile(l)] = l]
    /\ generated_outputs' =
           [generated_outputs EXCEPT ![InputFile(l)] = @ \cup {OutputFile(l)}]
    /\ leaf' = [leaf EXCEPT ![l].pc = "done",
                            ![l].log = @ \cup {"written", "recorded"}]
    /\ UNCHANGED <<reply_counter, brokerVars, sched, started, events, faults,
                   otherVars>>

\* shutil.copyfile raises (the source is missing): exec() raises
CopyFail(l) ==
    /\ CopyTurn(l)
    /\ faults < MaxFaults
    /\ faults' = faults + 1
    /\ leaf' = [leaf EXCEPT ![l].pc = "raised"]
    /\ UNCHANGED <<reply_counter, brokerVars, generated_outputs, disk, sched,
                   started, events, otherVars>>

(***************************************************************************)
(* The broker and the workers, as the orchestrator sees them.              *)
(***************************************************************************)
\* a worker's fetch_and_process_one_message: take a request, acknowledge
\* it, and publish {"result": ..} or {"error": ..} to its reply subject
WorkerReply(m, body) ==
    /\ m \in reqStream
    /\ body = "error" => faults < MaxFaults
    /\ faults' = IF body = "error" THEN faults + 1 ELSE faults
    /\ reqStream' = reqStream \ {m}
    /\ resStream' = resStream \cup
           {[req |-> m.req, subject |-> m.reply_subject, body |-> body,
             deliveries |-> 0]}
    /\ UNCHANGED <<leaf, reply_counter, subs, delivered, generated_outputs, disk,
                   sched, started, events, otherVars>>

\* reply payloads outside the protocol: JSON that is not an object, and an
\* object with neither a result nor an error key
MalformedBodies == {"not_object", "no_key"}

\* a request is answered with a payload that is outside the protocol
MalformedReply(m, body) ==
    /\ m \in reqStream
    /\ body \in MalformedBodies
    /\ faults < MaxFaults
    /\ faults' = faults + 1
    /\ reqStream' = reqStream \ {m}
    /\ resStream' = resStream \cup
           {[req |-> m.req, subject |-> m.reply_subject, body |-> body,
             deliveries |-> 0]}
    /\ UNCHANGED <<leaf, reply_counter, subs, delivered, generated_outputs, disk,
                   sched, started, events, otherVars>>

\* the reply stream hands a held reply to a live subscription on its
\* subject, at most max_deliver times
Deliver(m, l) ==
    /\ m \in resStream
    /\ m.deliveries < MaxDeliver
    /\ l \in subs
    /\ leaf[l].subj = m.subject
    /\ resStream' = (resStream \ {m}) \cup {[m EXCEPT !.deliveries = @ + 1]}
    /\ leaf' = [leaf EXCEPT ![l].inbox =
                    Append(@, [req |-> m.req, subject |-> m.subject, body |-> m.body])]
    /\ delivered' = delivered \cup {<<m.req, l>>}
    /\ UNCHANGED <<reply_counter, subs, reqStream, generated_outputs, disk,
                   sched, started, events, faults, otherVars>>

(***************************************************************************)
(* Operation trees and Course.process_all.                                 *)
(***************************************************************************)
\* the position of a leaf's coroutine; "idle" before its exec() is called
PcOf(l) == IF l \in DOMAIN leaf THEN leaf[l].pc ELSE "idle"

\* asyncio.gather(*children) of Concurrently.exec has raised: a child raised
TopRaised(r, f) == \E l \in LeavesOf(r, f) : PcOf(l) = "raised"

\* every child has returned
TopReturned(r, f) == \A l \in LeavesOf(r, f) : PcOf(l) = "done"

\* exec() of the file's operation is over: gather returns when all children
\* are done and raises as soon as one child has raised; every child task has
\* run its first step by then
TopFinished(r, f) ==
    /\ <<r, f>> \in started
    /\ \A l \in LeavesOf(r, f) : PcOf(l) # "start"
    /\ TopRaised(r, f) \/ TopReturned(r, f)

\* exec() of the file's operation is running
TopRunning(r, f) == <<r, f>> \in started /\ ~TopFinished(r, f)

\* the operations of a stage: the section's files whose stage matches
StageOps(sec, stage) ==
    SelectSeq(SectionFiles(Sections[sec]), LAMBDA f : ExecutionStage(f) = stage)

\* course.chunks(lst, n): the i-th chunk, lst[(i-1)*n : i*n]
chunksMutant(lst, n, i) ==
    SubSeq(lst, (i - 1) * n + 1, IF i * n + 1 < Len(lst) THEN i * n + 1 ELSE Len(lst))
chunks(lst, n, i) ==
    SubSeq(lst, (i - 1) * n + 1, IF i * n < Len(lst) THEN i * n ELSE Len(lst))

\* the number of chunks of the list
NumChunks(lst, n) == (Len(lst) + n - 1) \div n

\* the files of the chunk process_all is at
CurrentChunk ==
    LET c == chunks(StageOps(sched.sec, sched.stage), ChunkSize, sched.chunk)
    IN  {c[i] : i \in 1..Len(c)}

\* a leaf whose task has just been created
NewLeaf(l) ==
    [pc |-> IF IsRpcLeaf(l) THEN "connecting" ELSE "start",
     subj |-> NoSubject, tries |-> 0, msg |-> NoMsg, inbox |-> <<>>, log |-> {}]

\* the tasks gather creates for the operations of the files F in run r
StartLeaves(r, F) ==
    LET new == UNION {LeavesOf(r, f) : f \in F}
    IN  [l \in DOMAIN leaf \cup new |-> IF l \in new THEN NewLeaf(l) ELSE leaf[l]]

\* the position after the last chunk of a stage
NextStageMutant ==
    IF \E f \in CurrentChunk : TopRaised(1, f)
    THEN [sched EXCEPT !.phase = "done"]
    ELSE IF sched.stage < LAST_EXECUTION_STAGE
    THEN [phase |-> "stage", sec |-> sched.sec, stage |-> sched.stage + 1, chunk |-> 1]
    ELSE IF sched.sec < Len(Sections)
         THEN [phase |-> "stage", sec |-> sched.sec + 1,
               stage |-> FIRST_EXECUTION_STAGE, chunk |-> 1]
         ELSE [sched EXCEPT !.phase = "dict"]
NextStage ==
    IF sched.stage < LAST_EXECUTION_STAGE
    THEN [phase |-> "stage", sec |-> sched.sec, stage |-> sched.stage + 1, chunk |-> 1]
    ELSE IF sched.sec < Len(Sections)
         THEN [phase |-> "stage", sec |-> sched.sec + 1,
               stage |-> FIRST_EXECUTION_STAGE, chunk |-> 1]
         ELSE [sched EXCEPT !.phase = "dict"]

\* asyncio.gather(*[op.exec() for op in op_chunk], return_exceptions=True)
StartChunk ==
    /\ sched.phase = "stage"
    /\ sched.chunk <= NumChunks(StageOps(sched.sec, sched.stage), ChunkSize)
    /\ leaf' = StartLeaves(1, CurrentChunk)
    /\ started' = started \cup {<<1, f>> : f \in CurrentChunk}
    /\ sched' = [sched EXCEPT !.phase = "gather"]
    /\ UNCHANGED <<reply_counter, brokerVars, generated_outputs, disk, events,
                   faults, otherVars>>

\* a stage without files: no chunk, on to the next stage
SkipStage ==
    /\ sched.phase = "stage"
    /\ Len(StageOps(sched.sec, sched.stage)) = 0
    /\ sched' = NextStage
    /\ UNCHANGED <<leaf, reply_counter, brokerVars, generated_outputs, disk,
                   started, events, faults, otherVars>>

\* the chunk's gather returns: return_exceptions=True waits for every
\* operation of the chunk, failed or not
ChunkFinishedMutant ==
    \/ \A f \in CurrentChunk : TopFinished(1, f)
    \/ \E f \in CurrentChunk : TopFinished(1, f) /\ TopRaised(1, f)
ChunkFinished == \A f \in CurrentChunk : TopFinished(1, f)

JoinChunk ==
    /\ sched.phase = "gather"
    /\ ChunkFinished
    /\ sched' = [sched EXCEPT !.phase = "sleep"]
    /\ UNCHANGED <<leaf, reply_counter, brokerVars, generated_outputs, disk,
                   started, events, faults, otherVars>>

\* asyncio.sleep(0.5) is over: the next chunk, or the next stage
AfterSleep ==
    /\ sched.phase = "sleep"
    /\ sched' = IF sched.chunk < NumChunks(StageOps(sched.sec, sched.stage), ChunkSize)
                THEN [sched EXCEPT !.phase = "stage", !.chunk = @ + 1]
                ELSE NextStage
    /\ UNCHANGED <<leaf, reply_counter, brokerVars, generated_outputs, disk,
                   started, events, faults, otherVars>>

\* the final pass over the dictionary groups
DictPass ==
    /\ sched.phase = "dict"
    /\ sched' = [sched EXCEPT !.phase = "done"]
    /\ UNCHANGED <<leaf, reply_counter, brokerVars, generated_outputs, disk,
                   started, events, faults, otherVars>>

(***************************************************************************)
(* File events: FileEventHandler.on_modified creates a task that runs      *)
(* Course.process_file, which executes the operation of that file.         *)
(***************************************************************************)
\* FileEventHandler.handle_event of the task created for event run rf[1]:
\* try: await method(*args); except Exception: logging.error
handle_eventMutant(rf) ==
    IF ~TopFinished(rf[1], rf[2]) THEN "running"
    ELSE IF TopRaised(rf[1], rf[2]) THEN "escaped" ELSE "returned"
handle_event(rf) ==
    IF ~TopFinished(rf[1], rf[2]) THEN "running"
    ELSE IF TopRaised(rf[1], rf[2]) THEN "caught" ELSE "returned"

\* the event runs: the tasks created by the event handler
EventRuns == {rf \in started : rf[1] > 1}

\* main's watch loop goes on as long as no exception reaches it
WatchLoopAlive == \A rf \in EventRuns : handle_event(rf) # "escaped"

OnFileModified(f) ==
    /\ sched.phase = "done"
    /\ WatchLoopAlive
    /\ events < MaxEvents
    /\ events' = events + 1
    /\ leaf' = StartLeaves(2 + events, {f})
    /\ started' = started \cup {<<2 + events, f>>}
    /\ UNCHANGED <<reply_counter, brokerVars, generated_outputs, disk, sched,
                   faults, otherVars>>

(***************************************************************************)
(* Specifications.                                                         *)
(***************************************************************************)
LeafStep(l) ==
    \/ ConnectOk(l) \/ ConnectFail(l)
    \/ SubscribeOk(l) \/ SubscribeFail(l)
    \/ PublishOk(l) \/ PublishCancelled(l) \/ PublishError(l)
    \/ NextMsg(l) \/ Ack(l) \/ Decode(l) \/ Finish(l)
    \/ CopyOk(l) \/ CopyFail(l)

Environment ==
    \/ \E m \in reqStream, body \in {"result", "error"} : WorkerReply(m, body)
    \/ \E m \in resStream, l \in subs : Deliver(m, l)

Scheduler == StartChunk \/ SkipStage \/ JoinChunk \/ AfterSleep \/ DictPass

Next ==
    \/ Scheduler
    \/ \E l \in DOMAIN leaf : LeafStep(l)
    \/ Environment

\* the build: Course.from_spec, then process_all
Spec == Init /\ [][Next]_vars

(***************************************************************************)
(* The watch session: the state after a build in which every operation     *)
(* succeeded, followed by file events whose handlers run concurrently.     *)
(***************************************************************************)
BuiltLeaves == UNION {LeavesOf(1, f) : f \in Files}

\* the reply counter a diagram's request drew during the build
BuiltCounter(f) == IF f = "p1" THEN 1 ELSE 2

BuiltSubject(l) ==
    IF IsImageLeaf(l)
    THEN ImageReplySubject(l[2], BuiltCounter(l[2]))
    ELSE NotebookReplySubject(l[2], l[3])

BuiltLeaf(l) ==
    IF IsRpcLeaf(l)
    THEN [pc |-> "done", subj |-> BuiltSubject(l), tries |-> 0,
          msg |-> [req |-> l, subject |-> BuiltSubject(l), body |-> "result"],
          inbox |-> <<>>,
          log |-> {"subscribed", "published", "acked", "decoded", "written",
                   "recorded"}]
    ELSE [pc |-> "done", subj |-> NoSubject, tries |-> 0, msg |-> NoMsg,
          inbox |-> <<>>, log |-> {"written", "recorded"}]

AfterBuild ==
    /\ leaf = [l \in BuiltLeaves |-> BuiltLeaf(l)]
    /\ reply_counter = 2
    /\ subs = {}
    /\ reqStream = {}
    /\ resStream = {}
    /\ delivered = {<<l, l>> : l \in {k \in BuiltLeaves : IsRpcLeaf(k)}}
    /\ generated_outputs = [f \in Files |-> {OutputFile(l) : l \in LeavesOf(1, f)}]
    /\ disk = [p \in OutPaths |->
                  IF \E l \in BuiltLeaves : OutputFile(l) = p
                  THEN CHOOSE l \in BuiltLeaves : OutputFile(l) = p
                  ELSE NoFile]
    /\ sched = [phase |-> "done", sec |-> Len(Sections),
                stage |-> LAST_EXECUTION_STAGE, chunk |-> 1]
    /\ started = {<<1, f>> : f \in Files}
    /\ events = 0
    /\ faults = 0
    /\ OtherInit

WatchNext ==
    \/ \E f \in Files : OnFileModified(f)
    \/ \E l \in DOMAIN leaf : LeafStep(l)
    \/ Environment

WatchSpec == AfterBuild /\ [][WatchNext]_vars

\* the build can end in the state the watch session starts from
BuildNeverSucceeds == ~AfterBuild

(***************************************************************************)
(* Properties.                                                             *)
(***************************************************************************)
RpcLeaves == {l \in DOMAIN leaf : IsRpcLeaf(l)}

Did(l, what) == what \in leaf[l].log

\* C1: in every conversion RPC the subscription to the reply subject is
\* established before the first publish of the request, and a request whose
\* subscribe failed is never published.
C1_SubscribeBeforePublish ==
    \A l \in RpcLeaves :
        /\ leaf[l].pc = "publishing" => l \in subs /\ Did(l, "subscribed")
        /\ Did(l, "published") => Did(l, "subscribed")
        /\ Did(l, "subscribe_failed") =>
               ~Did(l, "published") /\ \A m \in reqStream : m.req # l

\* one RPC has published its request, another has ended after its subscribe failed
C1_Witness ==
    \E l, k \in RpcLeaves :
        /\ Did(l, "published")
        /\ Did(k, "subscribe_failed") /\ leaf[k].pc = "done"

\* C2: a leaf conversion records its output_file in generated_outputs only
\* if its RPC received a result reply and wrote the artifact; a failed
\* conversion leaves generated_outputs unchanged.
C2_RecordedOnlyIfWritten ==
    \A l \in RpcLeaves :
        /\ Did(l, "recorded") => Did(l, "written")
        /\ leaf[l].pc = "raised" => ~Did(l, "recorded")

\* C3: no operation of stage N+1 of a section starts before every leaf
\* operation of stage N of that section has finished.
C3_StageBarrier ==
    \A f, g \in Files :
        (SectionOf(f) = SectionOf(g) /\ ExecutionStage(f) < ExecutionStage(g)) =>
            \A lf \in LeavesOf(1, f), lg \in LeavesOf(1, g) :
                PcOf(lg) # "idle" => PcOf(lf) \in {"done", "raised"}

\* the conversion RPCs of the build that are outstanding: request issued,
\* reply not yet received
Outstanding ==
    {l \in RpcLeaves : l[1] = 1 /\ leaf[l].pc = "waiting" /\ Did(l, "published")}

\* the file operations of the build whose exec() is running
RunningOps == {f \in Files : TopRunning(1, f)}

\* C4 as stated: during process_all the number of outstanding conversion
\* RPCs never exceeds the chunk size.
C4_OutstandingWithinChunkSize == Cardinality(Outstanding) <= ChunkSize

\* C4 as amended: during process_all the number of file operations whose
\* exec() is running never exceeds the chunk size.
C4_RunningOpsWithinChunkSize == Cardinality(RunningOps) <= ChunkSize

\* a full chunk is running and the stage has a further chunk
C4_Witness ==
    /\ Cardinality(RunningOps) = ChunkSize
    /\ sched.phase = "gather"
    /\ sched.chunk < NumChunks(StageOps(sched.sec, sched.stage), ChunkSize)

\* C5: when the gather of a chunk has returned, every operation of the chunk
\* has finished, failed or not, and every one that succeeded has recorded
\* the output of each of its leaves in its own file's generated_outputs.
C5_FailureIsolation ==
    sched.phase = "sleep" =>
        \A f \in CurrentChunk :
            /\ TopFinished(1, f)
            /\ TopReturned(1, f) =>
                   \A l \in LeavesOf(1, f) : OutputFile(l) \in generated_outputs[f]

\* a chunk has been joined in which one operation failed and another succeeded
C5_Witness ==
    /\ sched.phase = "sleep"
    /\ \E f, g \in CurrentChunk : TopRaised(1, f) /\ TopReturned(1, g)

\* C6: any two conversion requests issued during one run of the
\* orchestrator use different reply subjects.
C6_ReplySubjectsDistinct ==
    \A l, k \in RpcLeaves :
        (l # k /\ Did(l, "published") /\ Did(k, "published")) =>
            leaf[l].subj # leaf[k].subj

\* C7: the reply an operation consumes, and the artifact it writes, is the
\* reply to its own request.
C7_ConsumesOwnReply ==
    \A l \in RpcLeaves :
        /\ leaf[l].msg # NoMsg => leaf[l].msg.req = l
        /\ Did(l, "written") => leaf[l].msg.req = l

\* C8: a reply is acknowledged before its payload is decoded.
C8_AckBeforeDecode ==
    \A l \in RpcLeaves :
        /\ Did(l, "decoded") => Did(l, "acked")
        /\ leaf[l].pc = "got" => ~Did(l, "decoded")

\* an RPC has decoded the reply it received
C8_Witness == \E l \in RpcLeaves : Did(l, "decoded")

NoReplyWillCome(l) ==
    /\ leaf[l].pc = "waiting"
    /\ leaf[l].inbox = <<>>
    /\ \A m \in reqStream : m.reply_subject # leaf[l].subj
    /\ \A m \in resStream : m.subject = leaf[l].subj => m.deliveries >= MaxDeliver

\* C10: every RPC finishes: an RPC that waits for a reply that does not
\* arrive can still take a step of its own, by which it gives up and fails.
C10_WaitingCanGiveUp ==
    \A l \in RpcLeaves : NoReplyWillCome(l) => ENABLED LeafStep(l)

\* C11: when publishing the request fails, by a publish error or by all
\* publish attempts being cancelled, the operation does not go on to wait
\* for a reply and does not end as a success with its output recorded.
C11_PublishFailureFails ==
    \A l \in RpcLeaves :
        (Did(l, "publish_failed") \/ Did(l, "publish_exhausted")) =>
            /\ leaf[l].pc # "waiting"
            /\ ~Did(l, "recorded")

\* the build with a reply stream on which payloads outside the protocol
\* can arrive as well
ProtocolNext ==
    \/ Next
    \/ \E m \in reqStream, body \in MalformedBodies : MalformedReply(m, body)

ProtocolSpec == Init /\ [][ProtocolNext]_vars

\* the reply the RPC l received is outside the protocol
GotMalformedReply(l) ==
    leaf[l].msg # NoMsg /\ leaf[l].msg.body \in MalformedBodies

\* C12: a reply that is not a JSON object, or an object with neither a
\* result nor an error key, makes the operation a failed conversion: no
\* artifact is written, no exception escapes from the operation, and the
\* output is not recorded as generated.
C12_MalformedReplyFails ==
    \A l \in RpcLeaves :
        GotMalformedReply(l) =>
            /\ ~Did(l, "written")
            /\ leaf[l].pc # "raised"
            /\ ~Did(l, "recorded")

\* the reply the RPC l received carries an error key
GotErrorReply(l) == leaf[l].msg # NoMsg /\ leaf[l].msg.body = "error"

\* C13: when the reply to a request carries an error key, no artifact is
\* written, the request is not published a second time, and the operation
\* is a failed operation: its output is not recorded as generated.
C13_ErrorReplyFails ==
    \A l \in RpcLeaves :
        GotErrorReply(l) =>
            /\ ~Did(l, "written")
            /\ leaf[l].pc # "publishing" /\ \A m \in reqStream : m.req # l
            /\ ~Did(l, "recorded")

\* C14: Concurrently(ops).exec() is over only after every child operation
\* has finished, whether a child failed or not.
C14_ConcurrentlyWaitsForAll ==
    \A rf \in started :
        TopFinished(rf[1], rf[2]) =>
            \A l \in LeavesOf(rf[1], rf[2]) : PcOf(l) \in {"done", "raised"}

(***************************************************************************)
(* operation.Sequential on its own: a list of operations, each of which    *)
(* returns or raises.                                                      *)
(***************************************************************************)
\* the longest list of operations
MaxOps == 3

OpIds == {"a", "b", "c"}

OpLists == UNION {[1..n -> OpIds] : n \in 0..MaxOps}

\* the for loop takes operation i and calls its exec(); after the last
\* operation exec() returns
SeqContinue(s, i) ==
    IF i <= Len(s.operations)
    THEN [s EXCEPT !.status = "running", !.child[i] = "running",
                   !.log = Append(@, s.operations[i])]
    ELSE [s EXCEPT !.status = "returned"]

\* the awaited exec() of operation i raises: the exception leaves the for
\* loop and exec() of the Sequential
SeqAfterRaiseMutant(s, i) == SeqContinue([s EXCEPT !.child[i] = "raised"], i + 1)
SeqAfterRaise(s, i) == [s EXCEPT !.child[i] = "raised", !.status = "raised"]

\* Sequential.exec is called
SeqExec ==
    /\ seq.status = "idle"
    /\ seq' = SeqContinue(seq, 1)
    /\ UNCHANGED exceptSeq

\* the awaited exec() of operation i returns
SeqChildReturns(i) ==
    /\ seq.status = "running"
    /\ seq.child[i] = "running"
    /\ seq' = SeqContinue([seq EXCEPT !.child[i] = "done"], i + 1)
    /\ UNCHANGED exceptSeq

SeqChildRaises(i) ==
    /\ seq.status = "running"
    /\ seq.child[i] = "running"
    /\ seq' = SeqAfterRaise(seq, i)
    /\ UNCHANGED exceptSeq

SeqInit ==
    /\ BuildInit
    /\ \E ops \in OpLists : seq = NewSequential(ops)
    /\ del = NoDelete
    /\ course = NoCourse
    /\ ServicesIdle
    /\ UnitsIdle

SeqNext ==
    \/ SeqExec
    \/ \E i \in 1..Len(seq.operations) : SeqChildReturns(i)
    \/ \E i \in 1..Len(seq.operations) : SeqChildRaises(i)

SeqSpec == SeqInit /\ [][SeqNext]_vars

\* C15: Sequential(ops).exec() starts the operations in list order, each
\* one only after the previous one has returned; after the first operation
\* that fails it starts none of the remaining ones and fails itself; it
\* returns only when every operation has returned.
C15_SequentialInOrder ==
    LET n == Len(seq.operations)
    IN  /\ Len(seq.log) <= n
        /\ seq.log = SubSeq(seq.operations, 1, Len(seq.log))
        /\ \A i \in 1..n :
              /\ seq.child[i] # "idle" <=> i <= Len(seq.log)
              /\ seq.child[i] # "idle" => \A j \in 1..(i - 1) : seq.child[j] = "done"
              /\ seq.child[i] = "raised" => seq.status = "raised"
        /\ seq.status = "returned" => \A i \in 1..n : seq.child[i] = "done"
        /\ seq.status = "raised" => \E i \in 1..n : seq.child[i] = "raised"

\* a Sequential has failed at an operation that is not the first and not the last
C15_Witness ==
    /\ seq.status = "raised"
    /\ \E i \in 2..(Len(seq.operations) - 1) :
          /\ seq.child[i] = "raised"
          /\ seq.child[i - 1] = "done"
          /\ seq.child[i + 1] = "idle"

(***************************************************************************)
(* Deleting a file after the build: File.delete_op is a Concurrently over  *)
(* one DeleteFileOperation per recorded output, or a NoOperation.          *)
(***************************************************************************)
\* the number of delete operations
MaxDeletes == 2

\* everything but the delete operation
exceptDel == <<buildVars, seq, course, tree, boot, worker, unitVars>>

\* File.delete_op and the call of its exec(): gather creates one task per
\* DeleteFileOperation; NoOperation.exec does nothing
DeleteOp(f) ==
    /\ sched.phase = "done"
    /\ del.status # "running"
    /\ del.count < MaxDeletes
    /\ del' = IF generated_outputs[f] = {}
              THEN [NoDelete EXCEPT !.file = f, !.status = "noop",
                                    !.count = del.count + 1]
              ELSE [NoDelete EXCEPT !.file = f, !.status = "running",
                                    !.paths = generated_outputs[f],
                                    !.todo = generated_outputs[f],
                                    !.count = del.count + 1]
    /\ UNCHANGED exceptDel

\* DeleteFileOperation.exec: file_to_delete.unlink(), which raises when the
\* path does not exist, then generated_outputs.remove(file_to_delete)
DeleteFileExec(p) ==
    /\ del.status = "running"
    /\ p \in del.todo
    /\ IF disk[p] # NoFile
       THEN /\ disk' = [disk EXCEPT ![p] = NoFile]
            /\ generated_outputs' =
                   [generated_outputs EXCEPT ![del.file] = @ \ {p}]
            /\ del' = [del EXCEPT !.todo = @ \ {p}]
       ELSE /\ UNCHANGED <<disk, generated_outputs>>
            /\ del' = [del EXCEPT !.todo = @ \ {p}, !.failed = @ \cup {p}]
    /\ UNCHANGED <<leaf, reply_counter, brokerVars, sched, started, events,
                   faults, seq, course, tree, boot, worker, unitVars>>

\* exec() of the delete operation is over: the tasks of all its children
\* have run (they do not await), and gather raises if one of them raised
DeleteJoin ==
    /\ del.status = "running"
    /\ del.todo = {}
    /\ del' = [del EXCEPT !.status = IF del.failed = {} THEN "returned" ELSE "raised",
                          !.left = generated_outputs[del.file]]
    /\ UNCHANGED exceptDel

DeleteNext ==
    \/ Next
    \/ \E f \in Files : DeleteOp(f)
    \/ \E p \in OutPaths : DeleteFileExec(p)
    \/ DeleteJoin

\* the build, then delete operations on files of the course
DeleteSpec == Init /\ [][DeleteNext]_vars

\* C16: when the delete operation of a file is over, the file's
\* generated_outputs is empty; for a file with no recorded output the
\* delete operation is a NoOperation.
C16_DeleteEmptiesOutputs ==
    /\ del.status \in {"returned", "raised"} => del.left = {}
    /\ del.status = "noop" => del.paths = {}

IsDiagram(f) == Kind(f) \in {"plantuml", "drawio"}

\* C18: in process_all no notebook of a section starts being processed
\* before every diagram file of that section has finished its conversion.
C18_DiagramsBeforeNotebooks ==
    \A d, n \in Files :
        (IsDiagram(d) /\ Kind(n) = "notebook" /\ SectionOf(d) = SectionOf(n)) =>
            \A ld \in LeavesOf(1, d), ln \in LeavesOf(1, n) :
                PcOf(ln) # "idle" => PcOf(ld) \in {"done", "raised"}

\* the files whose stage process_all has passed or is at
ReachedFiles ==
    {f \in Files :
        \E i \in 1..Len(Sections) :
            /\ SectionOf(f) = Sections[i]
            /\ \/ sched.phase \in {"dict", "done"}
               \/ i < sched.sec
               \/ i = sched.sec /\ ExecutionStage(f) < sched.stage}

\* C19: process_all attempts every stage of every section and the final
\* dictionary pass whatever the outcome of earlier operations: the
\* operation of every file of a stage it has passed was started, and a
\* failed operation never leaves process_all without a next step.
C19_FailuresDoNotStopProcessAll ==
    /\ \A f \in ReachedFiles : <<1, f>> \in started
    /\ sched.phase \in {"stage", "sleep", "dict"} => ENABLED Scheduler
    /\ (sched.phase = "gather" /\
        \A f \in CurrentChunk : \A l \in LeavesOf(1, f) :
            PcOf(l) \in {"done", "raised"}) => ENABLED JoinChunk

\* process_all has run to its end although an operation of the first stage
\* of the first section failed, and an operation of the last section succeeded
C19_Witness ==
    /\ sched.phase = "done"
    /\ \E f \in Files :
          /\ SectionOf(f) = Sections[1]
          /\ ExecutionStage(f) = FIRST_EXECUTION_STAGE
          /\ TopRaised(1, f)
    /\ \E g \in Files : SectionOf(g) = Sections[Len(Sections)] /\ TopReturned(1, g)

(***************************************************************************)
(* The course structure: sections, topics, the file map of each topic and  *)
(* the numbers of the notebooks, under file events.                        *)
(***************************************************************************)
\* the number of file events on the course structure
MaxCourseEvents == 2

\* everything but the course structure
exceptCourse == <<buildVars, seq, del, tree, boot, worker, unitVars>>

NumSections == 2

\* Topic.section: the first two topics are in the first section
TopicSection(t) == IF t <= 2 THEN 1 ELSE 2

\* the file names that can occur in a topic directory, in sorted order
FileNames == <<"data_c", "slides_a", "slides_b">>

\* path_utils.is_slides_file, by which _find_file_class picks Notebook
is_slides_file(name) == name \in {"slides_a", "slides_b"}

\* CourseFile.from_path: a Notebook is created with number_in_section = 0
from_path(name) == [name |-> name, number_in_section |-> 0]

\* Topic.build_file_map / add_files_in_dir: the files of the directory,
\* added in sorted order
build_file_map(dir) ==
    LET names == SelectSeq(FileNames, LAMBDA n : n \in dir)
    IN  [i \in 1..Len(names) |-> from_path(names[i])]

\* the notebooks of topic t, as positions <<topic, index>> in its file map
TopicNotebooks(fm, t) ==
    SelectSeq([i \in 1..Len(fm[t]) |-> <<t, i>>],
              LAMBDA p : is_slides_file(fm[p[1]][p[2]].name))

RECURSIVE SectionNotebooks(_, _, _)
\* Section.notebooks: the notebooks of the section's topics from topic t
\* on, in topic-then-file order
SectionNotebooks(fm, sec, t) ==
    IF t > Len(TopicIds) THEN <<>>
    ELSE (IF TopicSection(t) = sec THEN TopicNotebooks(fm, t) ELSE <<>>)
         \o SectionNotebooks(fm, sec, t + 1)

\* Section.add_notebook_numbers
add_notebook_numbers(fm, sec) ==
    LET nbs == SectionNotebooks(fm, sec, 1)
    IN  [t \in DOMAIN fm |->
            [i \in 1..Len(fm[t]) |->
                IF \E k \in 1..Len(nbs) : nbs[k] = <<t, i>>
                THEN [fm[t][i] EXCEPT !.number_in_section =
                          CHOOSE k \in 1..Len(nbs) : nbs[k] = <<t, i>>]
                ELSE fm[t][i]]]

\* Course.from_spec / _build_sections for the topic directories dirs
from_spec(dirs) ==
    LET built == [t \in 1..Len(TopicIds) |-> build_file_map(dirs[t])]
    IN  add_notebook_numbers(add_notebook_numbers(built, 1), 2)

\* Notebook.file_name: the number of the notebook, then its title
file_name(fm, t, i) == <<fm[t][i].number_in_section, fm[t][i].name>>

\* an add_file that numbers the notebooks of the sections again
add_fileMutant(fm, t, name) ==
    IF \E i \in 1..Len(fm[t]) : fm[t][i].name = name
    THEN fm
    ELSE add_notebook_numbers(
             add_notebook_numbers([fm EXCEPT ![t] = Append(@, from_path(name))], 1), 2)

\* Topic.add_file: a path the topic already has is not added again
add_file(fm, t, name) ==
    IF \E i \in 1..Len(fm[t]) : fm[t][i].name = name
    THEN fm
    ELSE [fm EXCEPT ![t] = Append(@, from_path(name))]

\* Course.on_file_created: add_file, then process_file
OnFileCreated(t, name) ==
    /\ course.events < MaxCourseEvents
    /\ course' = [file_map |-> add_file(course.file_map, t, name),
                  events |-> course.events + 1]
    /\ UNCHANGED exceptCourse

\* Course.on_file_deleted: the file's delete operation is run; the file
\* stays in its topic
OnFileDeleted(t, name) ==
    /\ course.events < MaxCourseEvents
    /\ course' = [course EXCEPT !.events = @ + 1]
    /\ UNCHANGED exceptCourse

\* Course.on_file_modified on a file of the course structure: the file is
\* processed again, the file maps are not touched
OnCourseFileModified(t, name) ==
    /\ course.events < MaxCourseEvents
    /\ \E i \in 1..Len(course.file_map[t]) : course.file_map[t][i].name = name
    /\ course' = [course EXCEPT !.events = @ + 1]
    /\ UNCHANGED exceptCourse

\* Course.on_file_moved: on_file_deleted(src), then on_file_created(dest)
OnFileMoved(t, name, u, dest) ==
    /\ course.events < MaxCourseEvents
    /\ <<t, name>> # <<u, dest>>
    /\ course' = [file_map |-> add_file(course.file_map, u, dest),
                  events |-> course.events + 1]
    /\ UNCHANGED exceptCourse

CourseInit ==
    /\ BuildInit
    /\ seq = NewSequential(<<>>)
    /\ del = NoDelete
    /\ ServicesIdle
    /\ UnitsIdle
    /\ \E dirs \in [1..Len(TopicIds) -> SUBSET {FileNames[i] : i \in 1..Len(FileNames)}] :
          course = [file_map |-> from_spec(dirs), events |-> 0]

CourseNext ==
    \E t \in 1..Len(TopicIds), i \in 1..Len(FileNames) :
        \/ OnFileCreated(t, FileNames[i])
        \/ OnFileDeleted(t, FileNames[i])
        \/ OnCourseFileModified(t, FileNames[i])
        \/ \E u \in 1..Len(TopicIds), j \in 1..Len(FileNames) :
              OnFileMoved(t, FileNames[i], u, FileNames[j])

CourseStructureSpec == CourseInit /\ [][CourseNext]_vars

\* C20: in every state of the course structure the number_in_section
\* values of the notebooks of each section are 1..N in topic-then-file
\* order.
C20_NotebookNumbersDense ==
    \A sec \in 1..NumSections :
        LET nbs == SectionNotebooks(course.file_map, sec, 1)
        IN  \A k \in 1..Len(nbs) :
                course.file_map[nbs[k][1]][nbs[k][2]].number_in_section = k

\* C21: a notebook that was numbered during the build keeps its
\* number_in_section, and so its output file name, over every file event
\* (created, modified, deleted, moved), whichever file the event is about.
C21_NumbersStable ==
    [][\A t \in DOMAIN course.file_map :
          \A i \in 1..Len(course.file_map[t]) :
              course.file_map[t][i].number_in_section > 0 =>
                  /\ i <= Len(course'.file_map[t])
                  /\ file_name(course'.file_map, t, i) = file_name(course.file_map, t, i)]_vars

\* after an event that brought a new notebook into a section, a notebook
\* numbered by the build is still there
C21_Witness ==
    /\ course.events > 0
    /\ \E t \in DOMAIN course.file_map :
          /\ \E i \in 1..Len(course.file_map[t]) :
                course.file_map[t][i].number_in_section > 0
          /\ \E j \in 1..Len(course.file_map[t]) :
                /\ is_slides_file(course.file_map[t][j].name)
                /\ course.file_map[t][j].number_in_section = 0

(***************************************************************************)
(* Course.from_spec on a course spec and a slides directory: the topic     *)
(* map, the sections and their topics, and Course.add_file afterwards.     *)
(* A path is a sequence of components; the name of a topic directory is    *)
(* the sequence of its parts between underscores.                          *)
(***************************************************************************)
\* the number of add_file / on_file_created calls after the build
MaxTreeEvents == 2

\* the number of topic ids a course spec names, over all its sections
MaxSpecTopics == 3

\* everything but the course built from a spec
exceptTree == <<buildVars, seq, del, course, boot, worker, unitVars>>

Modules == {"m1", "m2"}

\* the directories of a module of slides/: two topic directories in m1, in
\* m2 a topic directory with the id of one in m1 and a directory without id
ModuleDirs(m) ==
    IF m = "m1"
    THEN << <<"topic", "100", "a">>, <<"topic", "110", "b">> >>
    ELSE << <<"topic", "200", "a">>, <<"data">> >>

\* the orders in which iterdir() can yield the modules
ModuleOrders == {<<"m1", "m2">>, <<"m2", "m1">>}

\* the topic paths in the order the two loops of _build_topic_map visit them
Listing(mo) ==
    LET entries(m) == [i \in 1..Len(ModuleDirs(m)) |-> <<m, ModuleDirs(m)[i]>>]
    IN  entries(mo[1]) \o entries(mo[2])

\* path_utils.simplify_ordered_name: "_".join(name.split("_")[2:])
simplify_ordered_name(parts) == SubSeq(parts, 3, Len(parts))

\* a later directory with a known id replaces the entry
AddTopicPathMutant(map, topic_id, topic_path) == (topic_id :> topic_path) @@ map

\* _build_topic_map, the body of the inner loop for a directory with an
\* id: a duplicate id is logged and the entry is kept
AddTopicPath(map, topic_id, topic_path) ==
    IF topic_id \in DOMAIN map THEN map ELSE (topic_id :> topic_path) @@ map

RECURSIVE build_topic_map(_, _)
\* Course._build_topic_map over the topic paths still to visit
build_topic_map(map, listing) ==
    IF listing = <<>> THEN map
    ELSE LET topic_path == Head(listing)
             topic_id == simplify_ordered_name(topic_path[2])
         IN  build_topic_map(IF topic_id = <<>> THEN map
                             ELSE AddTopicPath(map, topic_id, topic_path),
                             Tail(listing))

\* the topic ids a course spec can name: two that exist, one that does not
SpecIds == {<<"a">>, <<"b">>, <<"z">>}

\* the course specs: two sections that name up to MaxSpecTopics topic ids
CourseSpecs ==
    {sp \in [1..NumSections -> UNION {[1..n -> SpecIds] : n \in 0..MaxSpecTopics}] :
        Len(sp[1]) + Len(sp[2]) <= MaxSpecTopics}

\* the files of a topic directory, relative to it, in the order in which
\* add_files_in_dir visits them over sorted(dir_path.iterdir()): the first
\* topic has a diagram in its directory pu/, the second one in the topic
\* directory itself
DirFiles(topic_path) ==
    IF topic_path = <<"m1", <<"topic", "100", "a">>>>
    THEN << <<"data_c">>, <<"pu", "diag_p.pu">>, <<"slides_a">> >>
    ELSE IF topic_path = <<"m1", <<"topic", "110", "b">>>>
    THEN << <<"diag_d.drawio">>, <<"slides_b">> >>
    ELSE << <<"slides_a">> >>

\* is_in_dir(path, dir_path, check_is_file=False)
is_in_dir(path, dir_path) ==
    Len(dir_path) < Len(path) /\ SubSeq(path, 1, Len(dir_path)) = dir_path

\* a topic that takes every path but its own for one of its files
matches_pathMutant(topic, path) == path # topic.path

\* Topic.matches_path
matches_path(topic, path) == is_in_dir(path, topic.path)

\* Topic.file_for_path
file_for_path(topic, path) ==
    {i \in 1..Len(topic.file_map) : topic.file_map[i].path = path}

\* CourseFile.from_path: a new file object, nothing generated yet
course_file_from_path(path) ==
    [path |-> path, number_in_section |-> 0, generated_outputs |-> {}]

\* a Topic.add_file that puts a new file object in place of the one it holds
topic_add_fileMutant(topic, path, ok) ==
    IF ~matches_path(topic, path) \/ ~ok THEN topic
    ELSE IF file_for_path(topic, path) # {}
    THEN [topic EXCEPT !.file_map =
             [i \in 1..Len(@) |-> IF @[i].path = path
                                  THEN course_file_from_path(path) ELSE @[i]]]
    ELSE [topic EXCEPT !.file_map = Append(@, course_file_from_path(path))]

\* Topic.add_file; ok is whether CourseFile.from_path returns (it raises
\* for a notebook that cannot be read, which add_file logs)
topic_add_file(topic, path, ok) ==
    IF ~matches_path(topic, path) THEN topic
    ELSE IF file_for_path(topic, path) # {} THEN topic
    ELSE IF ~ok THEN topic
    ELSE [topic EXCEPT !.file_map = Append(@, course_file_from_path(path))]

RECURSIVE add_files_in_dir(_, _)
\* Topic.add_files_in_dir for the files of the topic directory
add_files_in_dir(topic, names) ==
    IF names = <<>> THEN topic
    ELSE add_files_in_dir(topic_add_file(topic, topic.path \o Head(names), TRUE),
                          Tail(names))

\* Topic.from_id, then DirectoryTopic.build_file_map
new_topic(topic_id, topic_path) ==
    add_files_in_dir([id |-> topic_id, path |-> topic_path, file_map |-> <<>>],
                     DirFiles(topic_path))

\* the build gives up the section at a topic id that is not in the map
AfterUnknownTopicMutant(rest) == <<>>

\* _build_topics at a topic id that is not in the map: the error is
\* logged and the loop continues with the remaining topic specs
AfterUnknownTopic(rest) == rest

RECURSIVE build_topics(_, _)
\* Course._build_topics over the topic specs still to visit
build_topics(map, topic_specs) ==
    IF topic_specs = <<>> THEN <<>>
    ELSE IF Head(topic_specs) \notin DOMAIN map
    THEN build_topics(map, AfterUnknownTopic(Tail(topic_specs)))
    ELSE <<new_topic(Head(topic_specs), map[Head(topic_specs)])>>
         \o build_topics(map, Tail(topic_specs))

\* the notebooks among the files
NotebookCount(files) ==
    Len(SelectSeq(files, LAMBDA f : is_slides_file(f.path[Len(f.path)])))

RECURSIVE NotebooksBefore(_, _)
\* the number of notebooks in the topics before the k-th
NotebooksBefore(topics, k) ==
    IF k = 1 THEN 0
    ELSE NotebooksBefore(topics, k - 1) + NotebookCount(topics[k - 1].file_map)

\* Section.add_notebook_numbers over the topics of a section
section_add_notebook_numbers(topics) ==
    [k \in 1..Len(topics) |->
        [topics[k] EXCEPT !.file_map =
            [i \in 1..Len(topics[k].file_map) |->
                LET file == topics[k].file_map[i]
                IN  IF is_slides_file(file.path[Len(file.path)])
                    THEN [file EXCEPT !.number_in_section =
                             NotebooksBefore(topics, k)
                             + NotebookCount(SubSeq(topics[k].file_map, 1, i))]
                    ELSE file]]]

\* Course._build_sections
build_sections(map, spec) ==
    [s \in 1..Len(spec) |-> section_add_notebook_numbers(build_topics(map, spec[s]))]

\* the positions <<section, topic>> of the topics
TopicPositions(sections) ==
    {p \in (1..Len(sections)) \X (1..MaxSpecTopics) : p[2] <= Len(sections[p[1]])}

\* the first of the positions in the order of Course.topics
FirstPosition(ps) ==
    CHOOSE p \in ps : \A q \in ps : p[1] < q[1] \/ (p[1] = q[1] /\ p[2] <= q[2])

\* the topics Course.add_file finds to match the path
MatchingTopics(sections, path) ==
    {p \in TopicPositions(sections) : matches_path(sections[p[1]][p[2]], path)}

\* Course.add_file: the sections afterwards and the topic returned
course_add_file(sections, path, ok) ==
    IF MatchingTopics(sections, path) = {}
    THEN [sections |-> sections, returned |-> <<>>]
    ELSE LET p == FirstPosition(MatchingTopics(sections, path))
         IN  [sections |-> [sections EXCEPT ![p[1]][p[2]] = topic_add_file(@, path, ok)],
              returned |-> p]

\* Course.find_course_file: the topics that hold a file with the path
HoldingTopics(sections, path) ==
    {p \in TopicPositions(sections) : file_for_path(sections[p[1]][p[2]], path) # {}}

\* a process_file that takes the first topic for the one of an unknown path
\* and processes its files
process_fileMutant(sections, path) ==
    IF HoldingTopics(sections, path) = {} /\ TopicPositions(sections) # {}
    THEN LET p == FirstPosition(TopicPositions(sections))
         IN  [sections EXCEPT ![p[1]][p[2]].file_map =
                 [i \in 1..Len(@) |-> [@[i] EXCEPT !.generated_outputs = @ \cup {"out"}]]]
    ELSE sections

\* Course.process_file: the operation of the first file with the path is
\* executed and records what it generated; nothing for an unknown path
process_file(sections, path) ==
    IF HoldingTopics(sections, path) = {} THEN sections
    ELSE LET p == FirstPosition(HoldingTopics(sections, path))
         IN  [sections EXCEPT ![p[1]][p[2]].file_map =
                 [i \in 1..Len(@) |->
                     IF @[i].path = path
                     THEN [@[i] EXCEPT !.generated_outputs = @ \cup {"out"}]
                     ELSE @[i]]]

\* the diagram sources and the images made from them
DiagramImage == [diag_p_pu |-> "diag_p.png", diag_d_drawio |-> "diag_d.png"]

DiagramNames == {"diag_p.pu", "diag_d.drawio"}

\* the name with the suffix .png in place of its own
with_suffix_png(name) ==
    IF name = "diag_p.pu" THEN DiagramImage.diag_p_pu ELSE DiagramImage.diag_d_drawio

\* PlantUmlFile.img_path, DrawIoFile.img_path: path.parents[1] / "img" /
\* stem.png; a directory next to the topic directories is written as the
\* sequence of the parts of its name, like these
tree_img_path(path) ==
    IF Len(path) = 3
    THEN <<path[1], <<"img">>, with_suffix_png(path[Len(path)])>>
    ELSE SubSeq(path, 1, Len(path) - 2) \o <<"img", with_suffix_png(path[Len(path)])>>

\* File.generated_sources
generated_sources(file) ==
    IF file.path[Len(file.path)] \in DiagramNames THEN {tree_img_path(file.path)} ELSE {}

RECURSIVE add_generated_sources(_, _)
\* Course._add_generated_sources for one topic, over the files it held
\* when the loop started
add_generated_sources(topic, files) ==
    IF files = <<>> THEN topic
    ELSE add_generated_sources(
             IF generated_sources(Head(files)) = {} THEN topic
             ELSE topic_add_file(topic, tree_img_path(Head(files).path), TRUE),
             Tail(files))

\* File.execution_stage of the file classes
tree_execution_stage(path) ==
    IF path[Len(path)] \in DiagramNames \/ is_slides_file(path[Len(path)])
    THEN FIRST_EXECUTION_STAGE
    ELSE LAST_EXECUTION_STAGE

\* Course.from_spec; the course spec has no dictionaries
FromSpec ==
    /\ tree.phase = "spec"
    /\ LET map == build_topic_map(<<>>, tree.listing)
           built == build_sections(map, tree.spec)
       IN  tree' = [tree EXCEPT !.phase = "built",
                                !.topic_path_map = map,
                                !.sections =
                                    [s \in 1..Len(built) |->
                                        [k \in 1..Len(built[s]) |->
                                            add_generated_sources(
                                                built[s][k], built[s][k].file_map)]]]
    /\ UNCHANGED exceptTree

\* Course.add_file(path)
AddFile(path, ok) ==
    /\ tree.phase = "built"
    /\ tree.events < MaxTreeEvents
    /\ LET r == course_add_file(tree.sections, path, ok)
       IN  tree' = [tree EXCEPT !.sections = r.sections,
                                !.events = @ + 1,
                                !.last = [op |-> "add_file", path |-> path,
                                          returned |-> r.returned, executed |-> FALSE]]
    /\ UNCHANGED exceptTree

\* Course.on_file_created(path): add_file, then process_file if a topic
\* was returned
TreeFileCreated(path, ok) ==
    /\ tree.phase = "built"
    /\ tree.events < MaxTreeEvents
    /\ LET r == course_add_file(tree.sections, path, ok)
           runs == r.returned # <<>> /\ HoldingTopics(r.sections, path) # {}
       IN  tree' = [tree EXCEPT !.sections = IF r.returned # <<>>
                                             THEN process_file(r.sections, path)
                                             ELSE r.sections,
                                !.events = @ + 1,
                                !.last = [op |-> "on_file_created", path |-> path,
                                          returned |-> r.returned, executed |-> runs]]
    /\ UNCHANGED exceptTree

\* the paths of the file events: a file the build found, new files in two
\* topic directories, and a file in a directory that is no topic
EventPaths ==
    {<<"m1", <<"topic", "100", "a">>, "slides_a">>,
     <<"m1", <<"topic", "110", "b">>, "data_c">>,
     <<"m2", <<"topic", "200", "a">>, "data_c">>,
     <<"m2", <<"data">>, "data_c">>}

TreeInit ==
    /\ BuildInit
    /\ seq = NewSequential(<<>>)
    /\ del = NoDelete
    /\ course = NoCourse
    /\ boot = NoBoot
    /\ worker = NoWorker
    /\ UnitsIdle
    /\ \E mo \in ModuleOrders, sp \in CourseSpecs :
          tree = [NoTree EXCEPT !.phase = "spec", !.listing = Listing(mo), !.spec = sp]

TreeNext ==
    \/ FromSpec
    \/ \E path \in EventPaths, ok \in BOOLEAN : AddFile(path, ok)
    \/ \E path \in EventPaths, ok \in BOOLEAN : TreeFileCreated(path, ok)

CourseTreeSpec == TreeInit /\ [][TreeNext]_vars

\* the paths of the files a topic holds
TopicPaths(topic) == {topic.file_map[i].path : i \in 1..Len(topic.file_map)}

\* C22: no file path is held in the file maps of two different topics,
\* whatever the course spec (also one that names a topic id twice) and
\* after any calls of Course.add_file.
C22_FileInOneTopic ==
    \A p, q \in TopicPositions(tree.sections) :
        p # q => TopicPaths(tree.sections[p[1]][p[2]])
                 \cap TopicPaths(tree.sections[q[1]][q[2]]) = {}

\* the positions in the listing of the directories with the topic id
ListedAs(topic_id) ==
    {i \in 1..Len(tree.listing) : simplify_ordered_name(tree.listing[i][2]) = topic_id}

\* C23: the topic map holds, for every topic id that a directory yields,
\* the first directory encountered with that id, and nothing else.
C23_FirstTopicPathWins ==
    tree.phase = "built" =>
        /\ DOMAIN tree.topic_path_map =
               {simplify_ordered_name(tree.listing[i][2]) : i \in 1..Len(tree.listing)}
               \ {<<>>}
        /\ \A topic_id \in DOMAIN tree.topic_path_map :
              \E i \in ListedAs(topic_id) :
                  /\ tree.topic_path_map[topic_id] = tree.listing[i]
                  /\ \A j \in ListedAs(topic_id) : i <= j

\* the topic map was built from a listing in which two directories yield
\* the same id
C23_Witness ==
    /\ tree.phase = "built"
    /\ \E topic_id \in DOMAIN tree.topic_path_map :
          \E i, j \in ListedAs(topic_id) :
              i < j /\ tree.topic_path_map[topic_id] = tree.listing[i]

\* C24: the build makes one section per section spec, and the topics of a
\* section are the topic ids of its spec that are in the topic map, in
\* spec order; a topic id that is not in the map is skipped alone.
C24_UnknownTopicSkippedAlone ==
    tree.phase = "built" =>
        /\ Len(tree.sections) = Len(tree.spec)
        /\ \A s \in 1..Len(tree.spec) :
              LET known == SelectSeq(tree.spec[s],
                                     LAMBDA id : id \in DOMAIN tree.topic_path_map)
              IN  /\ Len(tree.sections[s]) = Len(known)
                  /\ \A k \in 1..Len(known) :
                        /\ tree.sections[s][k].id = known[k]
                        /\ tree.sections[s][k].path = tree.topic_path_map[known[k]]
                        /\ Len(tree.sections[s][k].file_map) > 0

\* a section spec named an unknown topic id before a known one, and the
\* other section named a known one
C24_Witness ==
    /\ tree.phase = "built"
    /\ \E s \in 1..Len(tree.spec) :
          /\ \E i, j \in 1..Len(tree.spec[s]) :
                /\ i < j
                /\ tree.spec[s][i] \notin DOMAIN tree.topic_path_map
                /\ tree.spec[s][j] \in DOMAIN tree.topic_path_map
          /\ Len(tree.sections[s]) > 0
          /\ \E u \in 1..Len(tree.sections) : u # s /\ Len(tree.sections[u]) > 0

\* the path lies under the directory of some topic of the course
UnderSomeTopic(sections, path) ==
    \E p \in TopicPositions(sections) : is_in_dir(path, sections[p[1]][p[2]].path)

\* C25: a call of Course.add_file or on_file_created with a path under no
\* topic's directory returns no topic, leaves the files of every topic as
\* they were and executes no processing operation.
C25_PathOutsideTopicsRejected ==
    [][(tree'.events = tree.events + 1 /\ ~UnderSomeTopic(tree.sections, tree'.last.path))
         => /\ tree'.last.returned = <<>>
            /\ tree'.sections = tree.sections
            /\ ~tree'.last.executed]_vars

\* on_file_created was called with a path under no topic of a course that
\* has topics
C25_Witness ==
    /\ tree.last.op = "on_file_created"
    /\ TopicPositions(tree.sections) # {}
    /\ ~UnderSomeTopic(tree.sections, tree.last.path)
    /\ tree.last.returned = <<>>

\* the topic that Course.add_file picks for the path holds the path
HeldByMatchingTopic(sections, path) ==
    /\ MatchingTopics(sections, path) # {}
    /\ LET p == FirstPosition(MatchingTopics(sections, path))
       IN  file_for_path(sections[p[1]][p[2]], path) # {}

\* C26: adding a path that the topic already holds leaves the file maps
\* unchanged: the file object stays, with its generated_outputs.
C26_AddFileIdempotent ==
    [][(/\ tree'.events = tree.events + 1
        /\ tree'.last.op = "add_file"
        /\ HeldByMatchingTopic(tree.sections, tree'.last.path))
         => tree'.sections = tree.sections]_vars

\* add_file was called with the path of a file that had generated outputs
C26_Witness ==
    /\ tree.last.op = "add_file"
    /\ tree.last.returned # <<>>
    /\ LET topic == tree.sections[tree.last.returned[1]][tree.last.returned[2]]
       IN  \E i \in file_for_path(topic, tree.last.path) :
               topic.file_map[i].generated_outputs # {}

(***************************************************************************)
(* The stream bootstrap service: create_streams and create_stream of       *)
(* services/nats-init, against a broker whose calls can fail.              *)
(***************************************************************************)
\* the number of times the bootstrap service is run
MaxBootRuns == 2

\* a create_stream that tries once more
CreateTriesMutant == 5 + 1

\* create_stream: for i in range(5)
CreateTries == 5

\* everything but the bootstrap service
exceptBoot == <<buildVars, seq, del, course, tree, worker, unitVars>>

\* the stream names of NATS_STREAMS, in the order of NATS_STREAMS.values()
BootStreams ==
    <<"DRAWIO_PROCESS_STREAM", "PLANTUML_PROCESS_STREAM", "IMG_RESULT_STREAM",
      "NOTEBOOK_PROCESS_STREAM", "NOTEBOOK_RESULT_STREAM">>

StreamNames == {BootStreams[k] : k \in 1..Len(BootStreams)}

\* the stream create_stream is working on
BootStream == BootStreams[boot.k]

\* create_streams calls create_stream for the k-th stream
BeginChannel(b, k) ==
    [b EXCEPT !.k = k, !.i = 0, !.attempted = @ \cup {BootStreams[k]},
              !.pc = IF b.force THEN "delete" ELSE "info"]

\* create_stream has returned: the loop of create_streams goes on, and
\* after the last stream the connection is closed
NextChannel(b) ==
    IF b.k = Len(BootStreams)
    THEN [b EXCEPT !.pc = "closed", !.runs = @ + 1]
    ELSE BeginChannel(b, b.k + 1)

\* a failure for one stream ends the bootstrap
AfterChannelFailureMutant(b) == [b EXCEPT !.pc = "closed", !.runs = @ + 1]

\* create_stream logs the exception of a broker call and returns, or its
\* retries run out: create_streams goes on with the next stream
AfterChannelFailure(b) == NextChannel(b)

\* the stream could not be created
ChannelFailed(b) == [b EXCEPT !.failed = @ \cup {BootStreams[b.k]}]

\* create_streams: nats.connect, which is outside the try block
BootConnect(ok) ==
    /\ boot.pc = "start"
    /\ boot' = IF ok THEN BeginChannel(boot, 1) ELSE [boot EXCEPT !.pc = "raised"]
    /\ UNCHANGED exceptBoot

\* create_stream: js.delete_stream under FORCE_DELETE_STREAMS
DeleteStream(outcome) ==
    /\ boot.pc = "delete"
    /\ CASE outcome = "ok" ->
              /\ BootStream \in boot.streams
              /\ boot' = [boot EXCEPT !.streams = @ \ {BootStream}, !.pc = "info"]
         [] outcome = "not_found" ->
              /\ BootStream \notin boot.streams
              /\ boot' = [boot EXCEPT !.pc = "info"]
         [] OTHER ->
              boot' = AfterChannelFailure(ChannelFailed(boot))
    /\ UNCHANGED exceptBoot

\* does_stream_exist: js.stream_info; any exception counts as not existing
StreamInfo(outcome) ==
    /\ boot.pc = "info"
    /\ CASE outcome = "found" ->
              /\ BootStream \in boot.streams
              /\ boot' = NextChannel(boot)
         [] outcome = "not_found" ->
              /\ BootStream \notin boot.streams
              /\ boot' = [boot EXCEPT !.pc = "add"]
         [] OTHER ->
              boot' = [boot EXCEPT !.pc = "add"]
    /\ UNCHANGED exceptBoot

\* create_stream: js.add_stream; TimeoutError and NotFoundError lead to the
\* next of the CreateTries tries, any other exception ends create_stream
AddStream(outcome) ==
    /\ boot.pc = "add"
    /\ CASE outcome = "ok" ->
              boot' = NextChannel([boot EXCEPT !.streams = @ \cup {BootStream}])
         [] outcome \in {"timeout", "not_found"} ->
              boot' = IF boot.i + 1 = CreateTries
                      THEN AfterChannelFailure(ChannelFailed(boot))
                      ELSE [boot EXCEPT !.i = @ + 1, !.pc = "info"]
         [] OTHER ->
              boot' = AfterChannelFailure(ChannelFailed(boot))
    /\ UNCHANGED exceptBoot

\* the service is started again
BootAgain ==
    /\ boot.pc = "closed"
    /\ boot.runs < MaxBootRuns
    /\ boot' = [boot EXCEPT !.pc = "start", !.k = 0, !.i = 0, !.before = boot.streams,
                            !.attempted = {}, !.failed = {}]
    /\ UNCHANGED exceptBoot

\* the service starts against a broker that has any of the streams;
\* FORCE_DELETE_STREAMS is true unless the environment sets it to ""
BootInit ==
    /\ BuildInit
    /\ seq = NewSequential(<<>>)
    /\ del = NoDelete
    /\ course = NoCourse
    /\ tree = NoTree
    /\ worker = NoWorker
    /\ UnitsIdle
    /\ \E existing \in SUBSET StreamNames, force \in BOOLEAN :
          boot = [NoBoot EXCEPT !.pc = "start", !.force = force,
                                !.streams = existing, !.before = existing]

BootStep ==
    \/ \E ok \in BOOLEAN : BootConnect(ok)
    \/ \E outcome \in {"ok", "not_found", "error"} : DeleteStream(outcome)
    \/ \E outcome \in {"found", "not_found", "error"} : StreamInfo(outcome)
    \/ \E outcome \in {"ok", "timeout", "not_found", "error"} : AddStream(outcome)

BootNext == BootStep \/ BootAgain

\* every call to the broker returns or raises: the client's requests time out
BootSpec == BootInit /\ [][BootNext]_vars /\ WF_vars(BootStep)

\* C27: when a run of the bootstrap is over, every stream that existed at
\* its start exists, and a second run leaves the streams of the first.
C27_ExistingChannelsStay ==
    boot.pc = "closed" =>
        /\ boot.before \subseteq boot.streams
        /\ boot.runs > 1 => boot.streams = boot.before

\* C28: a run of the bootstrap that is over has attempted all five
\* streams, whatever happened to the streams before the last, and every
\* run that has connected comes to its end.
C28_AllChannelsAttempted ==
    /\ [](boot.pc = "closed" => boot.attempted = StreamNames)
    /\ (boot.pc \in {"delete", "info", "add"}) ~> (boot.pc = "closed")

\* a run is over in which the first stream could not be created and the
\* last one was created
C28_Witness ==
    /\ boot.pc = "closed"
    /\ BootStreams[1] \in boot.failed
    /\ BootStreams[Len(BootStreams)] \in boot.streams \ boot.failed
    /\ BootStreams[Len(BootStreams)] \in boot.attempted

(***************************************************************************)
(* The conversion workers: extract_payload and process_message of the      *)
(* PlantUML converter, the DrawIO converter and the notebook processor,    *)
(* on the requests that lie in the worker's request stream.                *)
(***************************************************************************)
\* the number of requests in the request stream of the worker
MaxRequests == 2

\* everything but the worker service
exceptWorker == <<buildVars, seq, del, course, tree, boot, unitVars>>

Services == {"plantuml", "drawio", "notebook"}

\* the keys of the payload process_image_request publishes
ImagePayloadKeys == {"data", "reply_subject", "output_format"}

\* the keys of ProcessNotebookOperation.build_payload
NotebookPayloadKeys ==
    {"notebook_text", "notebook_path", "reply_subject", "prog_lang", "language",
     "notebook_format", "output_type", "other_files"}

\* the payload classes of the workers: the fields without and with a
\* default, and whether keys that are no fields are ignored (a pydantic
\* BaseModel) or make the constructor raise TypeError (a dataclass)
PayloadClass(service) ==
    CASE service = "plantuml" ->
             [required |-> {"data", "reply_subject"}, optional |-> {"output_format"},
              ignores_extra |-> FALSE]
      [] service = "drawio" ->
             [required |-> {"data", "reply_routing_key"}, optional |-> {"output_format"},
              ignores_extra |-> FALSE]
      [] OTHER ->
             [required |-> {"notebook_text", "notebook_path", "reply_stream", "prog_lang",
                            "language", "notebook_format", "output_type", "other_files"},
              optional |-> {}, ignores_extra |-> TRUE]

\* the attributes of a payload object
Attributes(service) == PayloadClass(service).required \cup PayloadClass(service).optional

\* the attribute process_message reads the subject of its reply from
ReplyAttribute(service) ==
    IF service = "drawio" THEN "reply_routing_key" ELSE "reply_subject"

\* the attributes the conversion reads before it converts:
\* process_notebook_file logs payload.reply_subject first
ConvertReads(service) == IF service = "notebook" THEN {"reply_subject"} ELSE {}

\* the stream the worker publishes its replies to
ResultStream(service) ==
    IF service = "notebook" THEN "NOTEBOOK_RESULT_STREAM" ELSE "IMG_RESULT_STREAM"

\* extract_payload returns: the body is a JSON object, every field without
\* default is there, and the class takes all the keys
extract_payload(service, msg) ==
    /\ msg.json
    /\ PayloadClass(service).required \subseteq msg.keys
    /\ PayloadClass(service).ignores_extra \/ msg.keys \subseteq Attributes(service)

\* the request the orchestrator publishes for variant v of file f, with
\* the reply subject it has subscribed to
OrchestratorRequest(f, v) ==
    [id |-> <<f, v>>, sender |-> "orchestrator", json |-> TRUE,
     keys |-> IF Kind(f) = "notebook" THEN NotebookPayloadKeys ELSE ImagePayloadKeys,
     reply_key |-> "reply_subject",
     subject |-> IF Kind(f) = "notebook" THEN NotebookReplySubject(f, v)
                 ELSE ImageReplySubject(f, 1)]

\* the field of the worker's payload class that is meant for the subject
ClassReplyKey(service) ==
    CASE service = "plantuml" -> "reply_subject"
      [] service = "drawio"   -> "reply_routing_key"
      [] OTHER                -> "reply_stream"

\* requests of other senders: one in the field names of the worker's
\* payload class, one that names a reply subject and lacks the other
\* fields, one whose body is not JSON
OtherRequests(service) ==
    LET subject == [stream |-> ResultStream(service), subject |-> <<"x">>]
    IN  {[id |-> <<"x", 1>>, sender |-> "other", json |-> TRUE,
          keys |-> PayloadClass(service).required,
          reply_key |-> ClassReplyKey(service), subject |-> subject],
         [id |-> <<"x", 2>>, sender |-> "other", json |-> TRUE,
          keys |-> {ReplyAttribute(service)},
          reply_key |-> ReplyAttribute(service), subject |-> subject],
         [id |-> <<"x", 3>>, sender |-> "other", json |-> FALSE,
          keys |-> {}, reply_key |-> "", subject |-> NoSubject]}

\* the requests that can lie in the request stream of the service
RequestsFor(service) ==
    {OrchestratorRequest(l[2], l[3]) :
        l \in {k \in UNION {LeavesOf(1, f) : f \in Files} : Kind(k[2]) = service}}
    \cup OtherRequests(service)

\* process_message is over for the message: back to next_msg
MessageDone(outcome) ==
    [worker EXCEPT !.pc = "next_msg", !.msg = NoRequest,
                   !.done = @ \cup {[msg |-> worker.msg, outcome |-> outcome]}]

\* fetch_and_process_one_message: next_msg returns a request, which is
\* acknowledged
WorkerNextMsg(m) ==
    /\ worker.pc = "next_msg"
    /\ m \in worker.stream
    /\ worker' = [worker EXCEPT !.stream = @ \ {m}, !.msg = m, !.pc = "extract"]
    /\ UNCHANGED exceptWorker

\* process_message: extract_payload, outside the try block; its exception
\* leaves process_message and is logged by fetch_and_process_messages
WorkerExtract ==
    /\ worker.pc = "extract"
    /\ worker' = IF extract_payload(worker.service, worker.msg)
                 THEN [worker EXCEPT !.pc = "convert"]
                 ELSE MessageDone("decode_failed")
    /\ UNCHANGED exceptWorker

\* process_message: the conversion returns a result or raises
WorkerConvert(ok) ==
    /\ worker.pc = "convert"
    /\ ok => ConvertReads(worker.service) \subseteq Attributes(worker.service)
    /\ worker' = [worker EXCEPT !.pc = IF ok THEN "publish_result" ELSE "publish_error"]
    /\ UNCHANGED exceptWorker

\* the reply published for the message in hand
Reply(key) ==
    [id |-> worker.msg.id, stream |-> ResultStream(worker.service),
     subject |-> worker.msg.subject, key |-> key]

\* process_message: publish_response with {"result": ..}; if the publish
\* raises, the except clause is entered
WorkerPublishResult(ok) ==
    /\ worker.pc = "publish_result"
    /\ worker' = IF ok
                 THEN [MessageDone("result") EXCEPT !.published = Append(@, Reply("result"))]
                 ELSE [worker EXCEPT !.pc = "publish_error"]
    /\ UNCHANGED exceptWorker

\* process_message, except clause: publish {"error": ..} to the subject
\* read from the payload; an exception here leaves process_message
WorkerPublishError(ok) ==
    /\ worker.pc = "publish_error"
    /\ worker' = IF ReplyAttribute(worker.service) \notin Attributes(worker.service)
                 THEN MessageDone("no_reply_attribute")
                 ELSE IF ok
                 THEN [MessageDone("error") EXCEPT !.published = Append(@, Reply("error"))]
                 ELSE MessageDone("publish_failed")
    /\ UNCHANGED exceptWorker

WorkerInit ==
    /\ BuildInit
    /\ seq = NewSequential(<<>>)
    /\ del = NoDelete
    /\ course = NoCourse
    /\ tree = NoTree
    /\ boot = NoBoot
    /\ UnitsIdle
    /\ \E service \in Services :
          \E requests \in SUBSET RequestsFor(service) :
              /\ Cardinality(requests) <= MaxRequests
              /\ worker = [NoWorker EXCEPT !.pc = "next_msg", !.service = service,
                                           !.stream = requests]

WorkerNext ==
    \/ \E m \in worker.stream : WorkerNextMsg(m)
    \/ WorkerExtract
    \/ \E ok \in BOOLEAN : WorkerConvert(ok)
    \/ \E ok \in BOOLEAN : WorkerPublishResult(ok)
    \/ \E ok \in BOOLEAN : WorkerPublishError(ok)

WorkerSpec == WorkerInit /\ [][WorkerNext]_vars

\* the replies published for the request
RepliesTo(m) ==
    {i \in 1..Len(worker.published) : worker.published[i].id = m.id}

\* C29: for every request the worker has taken and handled, it has
\* published exactly one reply, to the reply subject the request names,
\* with the key result or the key error, also when the decoding or the
\* conversion failed.
C29_ExactlyOneReply ==
    \A d \in worker.done :
        /\ Cardinality(RepliesTo(d.msg)) = 1
        /\ \A i \in RepliesTo(d.msg) :
              /\ worker.published[i].subject = d.msg.subject
              /\ worker.published[i].key \in {"result", "error"}

\* C30: every request of the orchestrator that a worker has handled was
\* decoded by the worker, reply_subject included, and what the worker
\* published for it went to the subject the orchestrator subscribed to.
C30_OrchestratorPayloadAccepted ==
    \A d \in worker.done :
        d.msg.sender = "orchestrator" =>
            /\ d.outcome \notin {"decode_failed", "no_reply_attribute"}
            /\ \A i \in RepliesTo(d.msg) : worker.published[i].subject = d.msg.subject

\* C31: whenever the generated_outputs of a file changes, the step is one
\* of an operation built for that file: a leaf operation whose input file
\* it is, or the delete operation of that file.
C31_OwnOutputsOnly ==
    [][\A f \in Files :
          generated_outputs'[f] # generated_outputs[f] =>
              \/ \E l \in DOMAIN leaf : l[2] = f /\ leaf'[l] # leaf[l]
              \/ del.status = "running" /\ del.file = f /\ del' # del]_vars

\* a delete operation has emptied the set of its file while another file
\* still has what its own operations recorded
C31_Witness ==
    /\ del.status = "returned"
    /\ generated_outputs[del.file] = {}
    /\ \E g \in Files : g # del.file /\ generated_outputs[g] # {}

(***************************************************************************)
(* File.from_path and get_processing_operation of one file object          *)
(* (clx/file.py), with the output directories computed by OutputSpec       *)
(* (clx/utils/path_utils.py) through as_dir_name (clx/utils/text_utils.py).*)
(* A file name is the sequence of its characters.  The build above takes   *)
(* the output directories of the variants as given.                        *)
(***************************************************************************)
\* everything but the file object
exceptUnit == <<buildVars, seq, del, course, tree, boot, worker, img, mv, conc>>

\* the functions and handlers modelled on their own, but the file object
UnitIdle == img = NoImg /\ mv = NoMove /\ conc = NoConc

SLIDES_PREFIX == <<"s", "l", "i", "d", "e", "s", "_">>

PLANTUML_EXTENSIONS ==
    {<<".", "p", "u">>,
     <<".", "p", "u", "m", "l">>,
     <<".", "p", "l", "a", "n", "t", "u", "m", "l">>}

SUPPORTED_PROG_LANG_EXTENSIONS ==
    {<<".", "p", "y">>,
     <<".", "c", "p", "p">>,
     <<".", "c">>,
     <<".", "r", "u", "s", "t">>,
     <<".", "r", "s">>,
     <<".", "j", "a", "v", "a">>,
     <<".", "c", "s">>,
     <<".", "m", "d">>}

DRAWIO_EXTENSION == <<".", "d", "r", "a", "w", "i", "o">>

\* suffixes that are in neither set, and no suffix
OtherSuffixes == {<<".", "p", "n", "g">>, <<".", "t", "x", "t">>, <<>>}

\* the stems of the file names: with the prefix, with a part of it, with the
\* prefix later in the name, without it, and a name that starts with a dot
Stems ==
    {<<"s", "l", "i", "d", "e", "s", "_", "a">>,
     <<"s", "l", "i", "d", "e", "s", "_">>,
     <<"s", "l", "i", "d", "e", "s">>,
     <<"x", "s", "l", "i", "d", "e", "s", "_">>,
     <<"d", "a", "t", "a">>,
     <<".", "d", "r", "a", "w", "i", "o">>}

\* the file names handed to File.from_path
UnitNames ==
    {st \o sx : st \in Stems,
                sx \in PLANTUML_EXTENSIONS \cup SUPPORTED_PROG_LANG_EXTENSIONS
                       \cup {DRAWIO_EXTENSION} \cup OtherSuffixes}

\* str.startswith
startswith(s, prefix) ==
    Len(prefix) <= Len(s) /\ SubSeq(s, 1, Len(prefix)) = prefix

\* PurePath.suffix: the name from its last dot on, unless that dot is the
\* first character of the name
suffix(name) ==
    LET dots == {i \in 2..Len(name) : name[i] = "."}
    IN  IF dots = {} THEN <<>>
        ELSE SubSeq(name, CHOOSE i \in dots : \A j \in dots : j <= i, Len(name))

\* PurePath.stem
stem(name) == SubSeq(name, 1, Len(name) - Len(suffix(name)))

\* a test for slides that looks at the prefix only
is_slides_pathMutant(name) == startswith(name, SLIDES_PREFIX)

\* path_utils.is_slides_file
is_slides_path(name) ==
    startswith(name, SLIDES_PREFIX) /\ suffix(name) \in SUPPORTED_PROG_LANG_EXTENSIONS

\* file._find_file_class
find_file_class(name) ==
    IF suffix(name) \in PLANTUML_EXTENSIONS THEN "PlantUmlFile"
    ELSE IF suffix(name) = DRAWIO_EXTENSION THEN "DrawIoFile"
    ELSE IF is_slides_path(name) THEN "Notebook"
    ELSE "DataFile"


\* text_utils.TEXT_MAPPINGS
TEXT_MAPPINGS ==
    [code       |-> [de |-> "Python",     en |-> "Python"],
     html       |-> [de |-> "Html",       en |-> "Html"],
     notebook   |-> [de |-> "Notebooks",  en |-> "Notebooks"],
     code_along |-> [de |-> "Code-Along", en |-> "Code-Along"],
     completed  |-> [de |-> "Completed",  en |-> "Completed"],
     speaker    |-> [de |-> "Speaker",    en |-> "Speaker"],
     slides     |-> [de |-> "Folien",     en |-> "Slides"]]

\* what a lookup with a key that the dict does not hold raises
KeyError == "KeyError"

\* text_utils.as_dir_name: TEXT_MAPPINGS[name][lang]
as_dir_name(name, lang) ==
    IF name \in DOMAIN TEXT_MAPPINGS THEN TEXT_MAPPINGS[name][lang] ELSE KeyError

\* the characters sanitize_file_name deletes (but the quotes) and those it
\* replaces by an underscore (but the euro sign)
CharsToDelete == {";", "!", "?", ".", ":"}

CharsToReplace == {"/", "\\", "$", "#", "%", "&", "<", ">", "*", "=", "^", "|"}

RECURSIVE strip(_)
\* str.strip
strip(text) ==
    IF text # <<>> /\ Head(text) = " " THEN strip(Tail(text))
    ELSE IF text # <<>> /\ text[Len(text)] = " "
    THEN strip(SubSeq(text, 1, Len(text) - 1))
    ELSE text

\* text_utils.sanitize_file_name
sanitize_file_name(text) ==
    LET kept == SelectSeq(strip(text), LAMBDA c : c \notin CharsToDelete)
    IN  [i \in 1..Len(kept) |->
            IF kept[i] \in CharsToReplace THEN "_"
            ELSE IF kept[i] \in {"{", "["} THEN "("
            ELSE IF kept[i] \in {"}", "]"} THEN ")"
            ELSE kept[i]]

\* Course.name and Section.name of the file object
CourseName == [de |-> <<"M", "e", "i", "n", " ", "K", "u", "r", "s", "!">>, en |-> <<" ", "M", "y", " ", "C", "o", "u", "r", "s", "e">>]

SectionName == [de |-> "Woche 1", en |-> "Week 1"]

\* the root directory of the outputs and the topic directory of the file
RootDir == <<"out">>

UnitTopicPath == <<"slides", "module", "topic">>

\* the directories File.from_path finds the file in: the topic directory
\* and a directory in it
UnitDirs == {UnitTopicPath, UnitTopicPath \o <<"pu">>}

\* path_utils.ext_for
ext_for(format_) ==
    CASE format_ = "html" -> ".html"
      [] format_ = "notebook" -> ".ipynb"
      [] format_ = "code" -> ".py"

\* OutputSpec.__attrs_post_init__: output_dir, or the KeyError of the
\* first as_dir_name that raises
OutputSpec(lang, format_, mode, root_dir) ==
    LET dirs == <<as_dir_name(lang, lang), as_dir_name(format_, lang),
                  as_dir_name(mode, lang)>>
    IN  IF \E i \in 1..3 : dirs[i] = KeyError
        THEN [raised |-> TRUE, lang |-> lang, format |-> format_, mode |-> mode,
              output_dir |-> <<>>]
        ELSE [raised |-> FALSE, lang |-> lang, format |-> format_, mode |-> mode,
              output_dir |-> root_dir \o <<dirs[1], sanitize_file_name(CourseName[lang]),
                                           dirs[2], dirs[3]>>]

RECURSIVE yield_output_specs(_, _)
\* the generator output_specs(course, root_dir) from its k-th OutputSpec
\* on: what it yields until it is exhausted or raises
yield_output_specs(k, root_dir) ==
    IF k > Len(output_specs) THEN [items |-> <<>>, raised |-> FALSE]
    ELSE LET o == OutputSpec(output_specs[k].lang, output_specs[k].format,
                             output_specs[k].mode, root_dir)
             rest == yield_output_specs(k + 1, root_dir)
         IN  IF o.raised THEN [items |-> <<>>, raised |-> TRUE]
             ELSE [items |-> <<o>> \o rest.items, raised |-> rest.raised]

\* File.relative_path
relative_path(path) == SubSeq(path, Len(UnitTopicPath) + 1, Len(path))

\* File.output_dir
file_output_dir(target_dir, lang) == Append(target_dir, SectionName[lang])

\* Notebook.file_name; the title is the stem of the file, the number 0
notebook_file_name(path, lang, ext) == <<0, stem(path[Len(path)]), ext>>

\* PlantUmlFile.img_path, DrawIoFile.img_path
img_path(path) ==
    SubSeq(path, 1, Len(path) - 2) \o <<"img", stem(path[Len(path)]) \o <<".", "p", "n", "g">>>>

\* get_processing_operation of the file classes: the leaf operations, and
\* whether building them raised
get_processing_operation(class, path, target_dir) ==
    IF class \in {"PlantUmlFile", "DrawIoFile"}
    THEN [leaves |-> <<[lang |-> "", format |-> "", mode |-> "",
                        output_file |-> img_path(path)]>>,
          raised |-> FALSE]
    ELSE LET specs == yield_output_specs(1, target_dir)
             output_file(o) ==
                 IF class = "Notebook"
                 THEN Append(file_output_dir(o.output_dir, o.lang),
                             notebook_file_name(path, o.lang, ext_for(o.format)))
                 ELSE file_output_dir(o.output_dir, o.lang) \o relative_path(path)
         IN  [leaves |-> IF specs.raised THEN <<>>
                         ELSE [i \in 1..Len(specs.items) |->
                                  [lang |-> specs.items[i].lang,
                                   format |-> specs.items[i].format,
                                   mode |-> specs.items[i].mode,
                                   output_file |-> output_file(specs.items[i])]],
              raised |-> specs.raised]

\* File.from_path(course, file, topic)
UnitFromPath ==
    /\ unit.pc = "path"
    /\ unit' = [unit EXCEPT !.pc = "file",
                            !.class = find_file_class(unit.path[Len(unit.path)])]
    /\ UNCHANGED exceptUnit

\* file.get_processing_operation(target_dir)
UnitGetProcessingOperation ==
    /\ unit.pc = "file"
    /\ LET op == get_processing_operation(unit.class, unit.path, RootDir)
       IN  unit' = [unit EXCEPT !.pc = "op", !.leaves = op.leaves,
                                !.raised = op.raised]
    /\ UNCHANGED exceptUnit

UnitInit ==
    /\ BuildInit
    /\ seq = NewSequential(<<>>)
    /\ del = NoDelete
    /\ course = NoCourse
    /\ ServicesIdle
    /\ UnitIdle
    /\ \E dir \in UnitDirs, name \in UnitNames :
          unit = [NoUnit EXCEPT !.pc = "path", !.path = Append(dir, name)]

UnitNext == UnitFromPath \/ UnitGetProcessingOperation

UnitSpec == UnitInit /\ [][UnitNext]_vars

\* the <<language, format, mode>> of the variants: both languages with html
\* and notebook in both modes, and with code in completed mode
TenVariants ==
    ({"de", "en"} \X {"html", "notebook"} \X {"code-along", "completed"})
        \cup ({"de", "en"} \X {"code"} \X {"completed"})

\* C32: the processing operation of a data file or a notebook is built
\* without an error and holds exactly one leaf operation per variant: 10
\* leaves, every <<language, format, mode>> of the ten once, code never in
\* code-along mode, and no two leaves with the same output path.
C32_OneLeafPerVariant ==
    (unit.pc = "op" /\ unit.class \in {"Notebook", "DataFile"}) =>
        /\ ~unit.raised
        /\ Len(unit.leaves) = 10
        /\ {<<unit.leaves[i].lang, unit.leaves[i].format, unit.leaves[i].mode>> :
               i \in 1..Len(unit.leaves)} = TenVariants
        /\ \A i, j \in 1..Len(unit.leaves) :
              unit.leaves[i].output_file = unit.leaves[j].output_file => i = j

\* the expected class of a file name
ClassOfName(name) ==
    LET sx == suffix(name)
    IN  IF sx \in {<<".", "p", "u">>, <<".", "p", "u", "m", "l">>, <<".", "p", "l", "a", "n", "t", "u", "m", "l">>}
        THEN "PlantUmlFile"
        ELSE IF sx = <<".", "d", "r", "a", "w", "i", "o">> THEN "DrawIoFile"
        ELSE IF /\ Len(name) >= 7
                /\ SubSeq(name, 1, 7) = <<"s", "l", "i", "d", "e", "s", "_">>
                /\ sx \in {<<".", "p", "y">>,
                         <<".", "c", "p", "p">>,
                         <<".", "c">>,
                         <<".", "r", "u", "s", "t">>,
                         <<".", "r", "s">>,
                         <<".", "j", "a", "v", "a">>,
                         <<".", "c", "s">>,
                         <<".", "m", "d">>}
        THEN "Notebook"
        ELSE "DataFile"

\* C33: File.from_path gives every file name the class that its name
\* determines: PlantUmlFile for the suffixes .pu, .puml and .plantuml,
\* DrawIoFile for .drawio, Notebook for the prefix slides_ with a suffix of
\* a supported source language, DataFile for every other name.
C33_ClassByName ==
    unit.pc \in {"file", "op"} =>
        unit.class = ClassOfName(unit.path[Len(unit.path)])

\* a name with the prefix slides_ and another suffix has become a data file
C33_Witness ==
    /\ unit.pc = "file"
    /\ unit.class = "DataFile"
    /\ startswith(unit.path[Len(unit.path)], SLIDES_PREFIX)
    /\ suffix(unit.path[Len(unit.path)]) # <<>>

(***************************************************************************)
(* The result reply of a diagram request: the converter encodes the image  *)
(* (plantuml_converter.py, drawio_converter.py), process_image_request     *)
(* decodes it and writes it to output_file (clx/utils/nats_utils.py).      *)
(* Bytes are numbers 0..255; a base64 character is its index 0..63 in the  *)
(* alphabet, the padding character is B64Pad.                              *)
(***************************************************************************)
\* the length of the images the converter produces
MaxImageLen == 3

\* everything but the result reply
exceptImg == <<buildVars, seq, del, course, tree, boot, worker, unit, mv, conc>>

\* the characters of the base64 alphabet, and the padding character
B64Alphabet == 0..63

B64Pad == Cardinality(B64Alphabet)

\* the bytes of the images
ImageBytes == {0, 77, 255}

\* the images a converter produces: at least one byte
Images == UNION {[1..n -> ImageBytes] : n \in 1..MaxImageLen}

RECURSIVE b64encode(_)
\* base64.b64encode: three bytes give four characters, a last group of one
\* or two bytes is padded
b64encode(bs) ==
    IF bs = <<>> THEN <<>>
    ELSE IF Len(bs) = 1
    THEN <<bs[1] \div 4, (bs[1] % 4) * 16, B64Pad, B64Pad>>
    ELSE IF Len(bs) = 2
    THEN <<bs[1] \div 4, (bs[1] % 4) * 16 + bs[2] \div 16, (bs[2] % 16) * 4, B64Pad>>
    ELSE <<bs[1] \div 4, (bs[1] % 4) * 16 + bs[2] \div 16,
           (bs[2] % 16) * 4 + bs[3] \div 64, bs[3] % 64>>
         \o b64encode(SubSeq(bs, 4, Len(bs)))

RECURSIVE b64decode(_)
\* base64.b64decode of padded groups of four characters
b64decode(cs) ==
    IF Len(cs) < 4 THEN <<>>
    ELSE LET b1 == cs[1] * 4 + cs[2] \div 16
             b2 == (cs[2] % 16) * 16 + cs[3] \div 4
             b3 == (cs[3] % 4) * 64 + cs[4]
         IN  IF cs[3] = B64Pad THEN <<b1>>
             ELSE IF cs[4] = B64Pad THEN <<b1, b2>>
             ELSE <<b1, b2, b3>> \o b64decode(SubSeq(cs, 5, Len(cs)))

\* the converter replies: {"result": b64encode(result).decode("utf-8")}
ImgReply ==
    /\ img.pc = "converted"
    /\ img' = [img EXCEPT !.pc = "replied", !.result = b64encode(img.data)]
    /\ UNCHANGED exceptImg

\* a write that creates the parent directory first
write_bytesMutant(i, bytes) == [i EXCEPT !.written = TRUE, !.file = bytes]

\* Path.write_bytes: FileNotFoundError without the parent directory
write_bytes(i, bytes) ==
    IF i.parent THEN [i EXCEPT !.written = TRUE, !.file = bytes] ELSE i

\* process_image_request from the reply on: an empty result is skipped, the
\* error of the write is logged by the except clause
ImgReceive ==
    /\ img.pc = "replied"
    /\ img' = [(IF img.result # <<>> THEN write_bytes(img, b64decode(img.result))
                ELSE img) EXCEPT !.pc = "done"]
    /\ UNCHANGED exceptImg

ImgInit ==
    /\ BuildInit
    /\ seq = NewSequential(<<>>)
    /\ del = NoDelete
    /\ course = NoCourse
    /\ ServicesIdle
    /\ unit = NoUnit /\ mv = NoMove /\ conc = NoConc
    /\ \E data \in Images, parent \in BOOLEAN :
          img = [NoImg EXCEPT !.pc = "converted", !.data = data, !.parent = parent]

ImgNext == ImgReply \/ ImgReceive

ImgSpec == ImgInit /\ [][ImgNext]_vars

\* C34: when the result reply of a diagram request has been handled, the
\* output file is written and holds the base64 decoding of the result, and
\* this also when the parent directory of the output file did not exist.
C34_ResultWritten ==
    img.pc = "done" => img.written /\ img.file = b64decode(img.result)

\* the diagram files of a topic
TopicDiagrams(topic) ==
    {i \in 1..Len(topic.file_map) : generated_sources(topic.file_map[i]) # {}}

\* C35: after Course.from_spec, the image path of every diagram file is
\* the path of a file of the same topic, and the execution stage of that
\* file is later than the stage of the diagram.
C35_ImageTrackedInLaterStage ==
    (tree.phase = "built" /\ tree.events = 0) =>
        \A p \in TopicPositions(tree.sections) :
            LET topic == tree.sections[p[1]][p[2]]
            IN  \A i \in TopicDiagrams(topic) :
                    /\ tree_img_path(topic.file_map[i].path) \in TopicPaths(topic)
                    /\ tree_execution_stage(tree_img_path(topic.file_map[i].path))
                           > tree_execution_stage(topic.file_map[i].path)

\* a diagram in the directory pu/ of a topic, with its image in the topic
DiagramInSubdirTracked ==
    /\ tree.phase = "built"
    /\ \E p \in TopicPositions(tree.sections) :
          LET topic == tree.sections[p[1]][p[2]]
          IN  \E i \in TopicDiagrams(topic) :
                  /\ Len(topic.file_map[i].path) = 4
                  /\ tree_img_path(topic.file_map[i].path) \in TopicPaths(topic)

\* C36: create_stream calls add_stream at most 5 times for a channel: it
\* calls it again, after asking for the stream again, when a call failed
\* with a timeout or without a server and fewer than 5 calls were made,
\* and it calls it no more once the call has created the stream or
\* stream_info has found the stream.
C36_AtMostFiveAttempts ==
    /\ [](boot.pc \in {"info", "add"} => boot.i < 5)
    /\ [][(boot.pc \in {"info", "add"} /\ boot' # boot) =>
            LET goesOn == boot'.k = boot.k /\ boot'.pc \in {"delete", "info", "add"}
            IN  /\ BootStream \in boot'.streams \ boot.streams => ~goesOn
                /\ (boot.pc = "add" /\ goesOn) =>
                       boot'.pc = "info" /\ boot'.i = boot.i + 1
                /\ (boot.pc = "info" /\ goesOn) =>
                       boot'.pc = "add" /\ boot'.i = boot.i]_vars

\* the fifth call of add_stream for a channel is about to be made
C36_Witness == boot.pc = "add" /\ boot.i = 4

(***************************************************************************)
(* Course.on_file_moved (clx/course.py): on_file_deleted(src_path), then   *)
(* on_file_created(dest_path).  The delete operation of the source file is *)
(* the one modelled above; the destination is a new path of the course.    *)
(***************************************************************************)
\* on_file_moved is called for a file of the course: on_file_deleted finds
\* the file and calls its delete operation
MoveStart(f) ==
    /\ sched.phase = "done"
    /\ mv.pc = "idle"
    /\ del.status # "running"
    /\ del.count < MaxDeletes
    /\ del' = IF generated_outputs[f] = {}
              THEN [NoDelete EXCEPT !.file = f, !.status = "noop",
                                    !.count = del.count + 1]
              ELSE [NoDelete EXCEPT !.file = f, !.status = "running",
                                    !.paths = generated_outputs[f],
                                    !.todo = generated_outputs[f],
                                    !.count = del.count + 1]
    /\ mv' = [mv EXCEPT !.pc = "deleting", !.src = f]
    /\ UNCHANGED <<buildVars, seq, course, tree, boot, worker, unit, img, conc>>

\* on_file_moved is called for a path that is no file of the course:
\* on_file_deleted returns at once
MoveUntracked ==
    /\ sched.phase = "done"
    /\ mv.pc = "idle"
    /\ del.status # "running"
    /\ mv' = [mv EXCEPT !.pc = "creating"]
    /\ UNCHANGED <<buildVars, seq, del, course, tree, boot, worker, unit, img, conc>>

\* an on_file_moved that goes on after the exception of on_file_deleted
AfterDeleteMutant(status) == "creating"

\* await self.on_file_deleted(src_path) is over: its exception leaves
\* on_file_moved, otherwise on_file_created is called next
AfterDelete(status) == IF status = "raised" THEN "raised" ELSE "creating"

MoveAfterDelete ==
    /\ mv.pc = "deleting"
    /\ del.file = mv.src
    /\ del.status \in {"noop", "returned", "raised"}
    /\ mv' = [mv EXCEPT !.pc = AfterDelete(del.status)]
    /\ UNCHANGED <<buildVars, seq, del, course, tree, boot, worker, unit, img, conc>>

\* await self.on_file_created(dest_path)
MoveCreate ==
    /\ mv.pc = "creating"
    /\ mv' = [mv EXCEPT !.pc = "done", !.created = TRUE]
    /\ UNCHANGED <<buildVars, seq, del, course, tree, boot, worker, unit, img, conc>>

MoveNext ==
    \/ Next
    \/ \E f \in Files : MoveStart(f)
    \/ MoveUntracked
    \/ \E p \in OutPaths : DeleteFileExec(p)
    \/ DeleteJoin
    \/ MoveAfterDelete
    \/ MoveCreate

\* the build, then one call of on_file_moved
MoveSpec == Init /\ [][MoveNext]_vars

\* C37: the create handling of the destination does not start before the
\* delete handling of the source is over, and when on_file_moved is over
\* the create handling has run, whatever the delete handling ended with.
C37_DeleteThenCreate ==
    /\ mv.pc \in {"creating", "done"} => del.status # "running"
    /\ mv.pc \in {"done", "raised"} => mv.created

\* a move whose delete handling ran a delete operation to its end
MoveAfterRealDelete == mv.pc = "done" /\ del.status = "returned" /\ del.paths # {}

(***************************************************************************)
(* Course.process_file and Course.on_file_modified on the course built     *)
(* from a spec.                                                            *)
(***************************************************************************)
\* Course.process_file(path)
TreeProcessFile(path) ==
    /\ tree.phase = "built"
    /\ tree.events < MaxTreeEvents
    /\ tree' = [tree EXCEPT !.sections = process_file(tree.sections, path),
                            !.events = @ + 1,
                            !.last = [op |-> "process_file", path |-> path,
                                      returned |-> <<>>,
                                      executed |-> HoldingTopics(tree.sections, path) # {}]]
    /\ UNCHANGED exceptTree

\* Course.on_file_modified(path): process_file if find_course_file finds
\* the path
TreeFileModified(path) ==
    /\ tree.phase = "built"
    /\ tree.events < MaxTreeEvents
    /\ LET found == HoldingTopics(tree.sections, path) # {}
       IN  tree' = [tree EXCEPT !.sections = IF found THEN process_file(@, path) ELSE @,
                                !.events = @ + 1,
                                !.last = [op |-> "on_file_modified", path |-> path,
                                          returned |-> <<>>, executed |-> found]]
    /\ UNCHANGED exceptTree

TreeWatchNext ==
    \/ FromSpec
    \/ \E path \in EventPaths : TreeProcessFile(path)
    \/ \E path \in EventPaths : TreeFileModified(path)

\* the build of the course, then process_file and on_file_modified calls
TreeWatchSpec == TreeInit /\ [][TreeWatchNext]_vars

\* the path is the path of a file of some topic
Tracked(sections, path) ==
    \E p \in TopicPositions(sections) : path \in TopicPaths(sections[p[1]][p[2]])

\* C38: a call of process_file or on_file_modified with a path that is not
\* the path of a file of the course executes no operation and leaves the
\* sections, their topics, the files and their generated_outputs as they are.
C38_UntrackedPathIgnored ==
    [][(/\ tree'.events = tree.events + 1
        /\ tree'.last.op \in {"process_file", "on_file_modified"}
        /\ ~Tracked(tree.sections, tree'.last.path)) =>
            /\ tree'.sections = tree.sections
            /\ ~tree'.last.executed]_vars

\* process_file was called with a path outside the course whose topics
\* hold files
C38_Witness ==
    /\ tree.last.op = "process_file"
    /\ ~Tracked(tree.sections, tree.last.path)
    /\ \E p \in TopicPositions(tree.sections) : tree.sections[p[1]][p[2]].file_map # <<>>

MaxHandlers == 2

\* everything but the handler tasks
exceptConc == <<buildVars, seq, del, course, tree, boot, worker, unit, img, mv>>

\* the output paths of the file
ConcPaths == {"o1", "o2"}

Handlers == 1..Len(conc.task)

\* on_deleted: the task runs on_file_deleted up to the gather of
\* File.delete_op, which holds a DeleteFileOperation for every path that is
\* in generated_outputs now, or is a NoOperation
ConcDeleted ==
    /\ Len(conc.task) < MaxHandlers
    /\ conc' = [conc EXCEPT !.task =
                   Append(@, [kind |-> "delete",
                              pc |-> IF conc.outputs = {} THEN "returned" ELSE "running",
                              todo |-> conc.outputs, written |-> {}, failed |-> {}])]
    /\ UNCHANGED exceptConc

\* on_modified: the task runs process_file up to the gather of the
\* processing operation, one leaf operation per output path
ConcModified ==
    /\ Len(conc.task) < MaxHandlers
    /\ conc' = [conc EXCEPT !.task =
                   Append(@, [kind |-> "process", pc |-> "running",
                              todo |-> ConcPaths, written |-> {}, failed |-> {}])]
    /\ UNCHANGED exceptConc

\* DeleteFileOperation.exec: unlink raises FileNotFoundError for a path
\* that is not on disk, set.remove raises KeyError for a path that is not
\* in generated_outputs
delete_file_exec(c, h, p) ==
    IF p \notin c.disk
    THEN [c EXCEPT !.task[h].todo = @ \ {p}, !.task[h].failed = @ \cup {p}]
    ELSE IF p \notin c.outputs
    THEN [c EXCEPT !.disk = @ \ {p}, !.task[h].todo = @ \ {p},
                   !.task[h].failed = @ \cup {p}]
    ELSE [c EXCEPT !.disk = @ \ {p}, !.outputs = @ \ {p}, !.task[h].todo = @ \ {p}]

\* the task of a DeleteFileOperation runs
ConcDeleteFile(h, p) ==
    /\ conc.task[h].kind = "delete"
    /\ p \in conc.task[h].todo
    /\ conc' = delete_file_exec(conc, h, p)
    /\ UNCHANGED exceptConc

\* a leaf operation of the processing operation writes its output file
\* (process_image_request, write_notebook_to_file)
ConcWrite(h, p) ==
    /\ conc.task[h].kind = "process"
    /\ p \in conc.task[h].todo
    /\ conc' = [conc EXCEPT !.disk = @ \cup {p}, !.task[h].todo = @ \ {p},
                            !.task[h].written = @ \cup {p}]
    /\ UNCHANGED exceptConc

\* the leaf operation goes on after its request:
\* input_file.generated_outputs.add(output_file)
ConcRecord(h, p) ==
    /\ p \in conc.task[h].written
    /\ conc' = [conc EXCEPT !.outputs = @ \cup {p}, !.task[h].written = @ \ {p}]
    /\ UNCHANGED exceptConc

\* the gather of a handler's operation is over, and with it the handler:
\* handle_event logs the exception of an operation that raised
ConcJoin(h) ==
    /\ conc.task[h].pc = "running"
    /\ conc.task[h].todo = {}
    /\ conc.task[h].written = {}
    /\ conc' = [conc EXCEPT !.task[h].pc =
                   IF conc.task[h].failed = {} THEN "returned" ELSE "raised"]
    /\ UNCHANGED exceptConc

ConcInit ==
    /\ BuildInit
    /\ seq = NewSequential(<<>>)
    /\ del = NoDelete
    /\ course = NoCourse
    /\ ServicesIdle
    /\ unit = NoUnit /\ img = NoImg /\ mv = NoMove
    /\ conc = [NoConc EXCEPT !.outputs = ConcPaths, !.disk = ConcPaths]

ConcNext ==
    \/ ConcDeleted
    \/ ConcModified
    \/ \E h \in Handlers, p \in ConcPaths : ConcDeleteFile(h, p)
    \/ \E h \in Handlers, p \in ConcPaths : ConcWrite(h, p)
    \/ \E h \in Handlers, p \in ConcPaths : ConcRecord(h, p)
    \/ \E h \in Handlers : ConcJoin(h)

ConcSpec == ConcInit /\ [][ConcNext]_vars

\* C40: when all the handlers of the events for a file are over and the
\* last event was a delete, generated_outputs of the file is empty and no
\* handler has raised, whatever the interleaving of the handlers' tasks.
C40_DeleteWinsUnderInterleaving ==
    (/\ conc.task # <<>>
     /\ \A h \in Handlers : conc.task[h].pc \in {"returned", "raised"}
     /\ conc.task[Len(conc.task)].kind = "delete") =>
        /\ conc.outputs = {}
        /\ \A h \in Handlers : conc.task[h].pc = "returned"

\* one delete handler alone empties generated_outputs and returns
SingleDeleteWorks ==
    (Len(conc.task) = 1 /\ conc.task[1].kind = "delete" /\ conc.task[1].pc # "running") =>
        conc.outputs = {} /\ conc.task[1].pc = "returned"

====
